---------------------------- MODULE Spec2Model ----------------------------
(***************************************************************************)
(* A model of the XTF synchronisation tool (src/XTF): the chunked range    *)
(* transfer of api/sheet.py with its bisection on the payload-too-large    *)
(* code, the record batch loop and the four reconciliation modes of        *)
(* core/engine.py, and the key hashing of core/converter.py.               *)
(***************************************************************************)
EXTENDS Integers, Sequences, FiniteSets, TLC

(***************************************************************************)
(* Bounds of the model.                                                    *)
(***************************************************************************)
MaxRows == 4
MaxCols == 2
MaxRowBatch == 3
MaxThreshold == 3
MaxLocal == 2
MaxRemote == 2
MaxBatch == 2
MaxRuns == 2
MaxRetries == 3
MaxDelay == 2
MaxWait == 3
MaxTick == 1

(***************************************************************************)
(* Program constants.                                                      *)
(***************************************************************************)
\* SheetAPI.__init__: self.ERROR_CODE_REQUEST_TOO_LARGE = 90227
ERROR_CODE_REQUEST_TOO_LARGE == 90227
\* SheetAPI.__init__ defaults: start_row = 1, start_column = "A" (column 1)
StartRow == 1
StartColNum == 1
\* some other non-zero API error code (90202 is the one the source names)
OtherErrorCode == 90202

(***************************************************************************)
(* Python helpers.                                                         *)
(***************************************************************************)
Min(a, b) == IF a <= b THEN a ELSE b

\* s[lo:hi] of Python (0-based, hi exclusive, clipped to the sequence)
Slice(s, lo, hi) == SubSeq(s, lo + 1, Min(hi, Len(s)))

\* list.pop(): the last element, and the list without it
Top(stack) == stack[Len(stack)]
Pop(stack) == SubSeq(stack, 1, Len(stack) - 1)

RECURSIVE Concat(_)
Concat(ss) == IF ss = <<>> THEN <<>> ELSE Head(ss) \o Concat(Tail(ss))

RECURSIVE SumSeq(_)
SumSeq(s) == IF s = <<>> THEN 0 ELSE Head(s) + SumSeq(Tail(s))

SelectIdx(s, Test(_)) ==
    LET F[i \in 0..Len(s)] ==
            IF i = 0 THEN <<>>
            ELSE IF Test(s[i]) THEN Append(F[i - 1], s[i]) ELSE F[i - 1]
    IN F[Len(s)]

(***************************************************************************)
(* State of a chunked range transfer (SheetAPI.write_sheet_data and        *)
(* SheetAPI.append_sheet_data).                                            *)
(***************************************************************************)
VARIABLES
    op,             \* "write" | "append": which transfer runs
    values,         \* the grid handed to the transfer: rows of cells
    row_batch_size, \* initial row batch size
    col_batch_size, \* column batch size (write only)
    data_chunks,    \* the initial chunks of _create_data_chunks
    chunk_i,        \* index of the initial chunk being processed (enumerate)
    chunk_stack,    \* work stack of _upload_chunk_with_auto_split
    values_stack,   \* work stack of _append_chunk_with_auto_split
    sent,           \* every request sent to the remote, with its answer
    xpc,            \* "start" | "loop" | "done"
    xresult         \* "none" | "true" | "false" | "raised"

xvars == <<op, values, row_batch_size, col_batch_size, data_chunks, chunk_i,
           chunk_stack, values_stack, sent, xpc, xresult>>

(***************************************************************************)
(* State of one synchronisation run against a bitable (XTFSyncEngine).     *)
(***************************************************************************)
VARIABLES
    df,                   \* the local dataset: rows [key, n]
    index_column,         \* whether config.index_column is set
    key_field_type,       \* the key column's entry in field_types
    batch_size,           \* config.batch_size
    remote,               \* the records of the remote table, in listing order
    next_id,              \* the record_id the remote gives the next new record
    sync_mode,            \* the mode of the run in progress
    records_to_update,    \* plan: records to update, each with its record_id
    records_to_create,    \* plan: records to create
    record_ids_to_delete, \* plan: record_ids to delete
    phase_ok,             \* the result of process_in_batches per phase
    batch_i,              \* i of "for i in range(0, len(items), batch_size)"
    success_count,        \* success_count of process_in_batches
    calls,                \* every batch call sent to the remote in this run
    runs,                 \* the number of runs started
    history,              \* the results of the runs that have ended before
    existing_records,     \* the records the run read from the remote
    spc,                  \* "idle" | "delete" | "update" | "create" | "done"
    sresult               \* "none" | "true" | "false" | "raised"

svars == <<df, index_column, key_field_type, batch_size, remote, next_id,
           sync_mode, records_to_update, records_to_create,
           record_ids_to_delete, phase_ok, batch_i, success_count, calls,
           runs, history, existing_records, spc, sresult>>

\* An INCREMENTAL run on a sheet
VARIABLES
    sheet_rows,           \* the key cells of the data rows the sheet holds
    selective_sync,       \* selective_sync.enabled with columns given
    sheet_ops,            \* the remote operations the run has issued
    pending_rows,         \* the DataFrame handed to the next method
    hpc,                  \* "idle" | "clone" | "selective" | "done"
    hresult               \* "none" | "true" | "false"

hvars == <<sheet_rows, selective_sync, sheet_ops, pending_rows, hpc, hresult>>

\* engine.sync before the mode's method
VARIABLES
    field_calls,          \* the field calls ensure_fields_exist has issued
    table_fields,         \* the columns that are fields of the remote table
    create_missing_fields \* config.create_missing_fields

evars == <<field_calls, table_fields, create_missing_fields>>

\* One call of RequestController.execute_request.  Times are in units of
\* half a second (initial_delay = 0.5 is 1).
VARIABLES
    retry_type,           \* "none" | "exponential_backoff" | "linear_growth" | "fixed_wait"
    initial_delay,        \* RetryConfig.initial_delay
    max_retries,          \* RetryConfig.max_retries
    max_wait_time,        \* RetryConfig.max_wait_time, NoWaitLimit for None
    multiplier,           \* ExponentialBackoffRetry.multiplier
    increment,            \* LinearGrowthRetry.increment
    rate_limited,         \* a rate_limit_strategy is configured
    attempt,              \* the local attempt of execute_request
    elapsed,              \* time.time() - start_time
    invocations,          \* how often func has been called
    last_step,            \* what the last iteration of the loop did
    rpc,                  \* "loop" | "done"
    rresult               \* "none" | "returned" | "raised"

rvars == <<retry_type, initial_delay, max_retries, max_wait_time, multiplier,
           increment, rate_limited, attempt, elapsed, invocations, last_step,
           rpc, rresult>>

\* One rate limiter of control.py (or the RateLimiter of base.py) and the
\* calls of wait_if_needed on it.  Times are in units of half a second.
VARIABLES
    limiter_type,         \* "none" | "fixed_wait" | "legacy" | "sliding_window" | "fixed_window"
    limiter_delay,        \* FixedWaitRateLimit.delay (RateLimiter.delay)
    window_size,          \* window_size of the two window limiters
    max_requests,         \* max_requests of the two window limiters
    now,                  \* time.time()
    last_request_time,    \* FixedWaitRateLimit.last_request_time (last_call)
    request_timestamps,   \* SlidingWindowRateLimit.request_timestamps
    window_start_time,    \* FixedWindowRateLimit.window_start_time
    current_window_requests, \* FixedWindowRateLimit.current_window_requests
    admissions,           \* one record per call of wait_if_needed that returned
    thread_pc,            \* where each thread is inside wait_if_needed
    thread_local          \* the value each thread has read and not yet written

lvars == <<limiter_type, limiter_delay, window_size, max_requests, now,
           last_request_time, request_timestamps, window_start_time,
           current_window_requests, admissions, thread_pc, thread_local>>

\* One call of RetryableAPIClient.call_api
VARIABLES
    api_path,             \* "none" | "controller" | "legacy"
    api_attempt,          \* attempt of "for attempt in range(max_retries + 1)"
    status_code,          \* response.status_code of the last response
    api_result            \* "none" | "returned" | "raised"

avars == <<api_path, api_attempt, status_code, api_result>>

\* The cancellation the caller of a run may ask for
VARIABLES
    cancel_requested

kvars == <<cancel_requested>>

\* The calls of execute_request made before the current one
VARIABLES
    request_calls,        \* how each earlier call through the controller ended
    call_iterations       \* iterations of "while True" in the current call

cvars == <<request_calls, call_iterations>>

\* One call of BitableAPI.get_all_records
VARIABLES
    pages,                \* what the remote answers for each page
    page_token,           \* page_token of get_all_records (0 is None)
    all_records,          \* all_records of get_all_records
    page_requests,        \* the page tokens sent to search_records, in order
    ppc                   \* "off" | "loop" | "returned" | "raised"

pvars == <<pages, page_token, all_records, page_requests, ppc>>

\* One call of SheetAPI.write_selective_columns
VARIABLES
    selected_positions,   \* the values of column_positions (1-based columns)
    value_ranges,         \* the column ranges sent to _batch_update_ranges
    wpc                   \* "off" | "start" | "true" | "false"

wvars == <<selected_positions, value_ranges, wpc>>

\* GlobalRequestController and the threads that use it
VARIABLES
    _instance,            \* GlobalRequestController._instance (0 is None)
    _controller,          \* _controller of the instance (0 is None)
    _lock,                \* the thread that holds _lock (0 is none)
    objects_made,         \* how many objects super().__new__ has made
    configured,           \* the argument of the last configure that completed
    global_pc,            \* where each thread is
    global_ref,           \* the reference each thread got from the constructor
    global_got            \* what the thread's last get returned, and when

gvars == <<_instance, _controller, _lock, objects_made, configured, global_pc,
           global_ref, global_got>>

\* The calls of can_proceed and reset on a SlidingWindowRateLimit
VARIABLES
    limiter_probes,       \* how many calls of can_proceed and reset were made
    can_proceed_returned  \* "none", or what the last can_proceed returned

qvars == <<limiter_probes, can_proceed_returned>>

more_vars == <<cvars, pvars, wvars, gvars, qvars>>

rest_vars == <<lvars, avars, kvars, more_vars>>

vars == <<xvars, svars, hvars, evars, rvars, rest_vars>>

\* The answers of one remote write as _batch_update_ranges and
\* _append_single_batch report them: (True, 0), (False, 90227), (False, other
\* code), (False, None) when the body is no JSON, or an exception of call_api.
Responses == {"ok", "too_large", "error", "no_code", "raise"}

\* (success, error_code) of a response that did not raise
Success(resp) == resp = "ok"
ErrorCode(resp) ==
    CASE resp = "ok" -> 0
      [] resp = "too_large" -> ERROR_CODE_REQUEST_TOO_LARGE
      [] resp = "error" -> OtherErrorCode
      [] OTHER -> -1

\* a grid of n rows and m columns whose cells are all different
Grid(n, m) == [r \in 1..n |-> [c \in 1..m |-> <<r, c>>]]


(***************************************************************************)
(* SheetAPI._create_data_chunks: column blocks in the outer loop, row      *)
(* blocks in the inner loop; each chunk carries its data and its 1-based   *)
(* row and column range on the sheet.                                      *)
(***************************************************************************)
\* range(0, total, step) of Python as a sequence
RangeStep(total, step) ==
    [k \in 1..((total + step - 1) \div step) |-> (k - 1) * step]

\* a faulty chunk: its row range is not shifted by the configured start row
ChunkAtUnshifted(vals, row_start, row_end, col_start, col_end) ==
    LET chunk_data == [i \in 1..(row_end - row_start) |->
                          Slice(vals[row_start + i], col_start, col_end)]
        actual_start_col == col_start + StartColNum
    IN [data |-> chunk_data,
        start_row |-> row_start,
        end_row |-> row_start + Len(chunk_data) - 1,
        start_col |-> actual_start_col,
        end_col |-> actual_start_col + (col_end - col_start) - 1]

ChunkAt(vals, row_start, row_end, col_start, col_end) ==
    LET chunk_data == [i \in 1..(row_end - row_start) |->
                          Slice(vals[row_start + i], col_start, col_end)]
        actual_start_row == row_start + StartRow
        actual_start_col == col_start + StartColNum
    IN [data |-> chunk_data,
        start_row |-> actual_start_row,
        end_row |-> actual_start_row + Len(chunk_data) - 1,
        start_col |-> actual_start_col,
        end_col |-> actual_start_col + (col_end - col_start) - 1]

CreateDataChunks(vals, rbs, cbs) ==
    LET total_rows == Len(vals)
        total_cols == IF vals = <<>> THEN 0 ELSE Len(vals[1])
        col_starts == RangeStep(total_cols, cbs)
        row_starts == RangeStep(total_rows, rbs)
        nr == Len(row_starts)
    IN [k \in 1..(Len(col_starts) * nr) |->
           LET col_start == col_starts[((k - 1) \div nr) + 1]
               row_start == row_starts[((k - 1) % nr) + 1]
           IN ChunkAt(vals, row_start, Min(row_start + rbs, total_rows),
                      col_start, Min(col_start + cbs, total_cols))]

(***************************************************************************)
(* The bisection of _upload_chunk_with_auto_split: the two halves of a     *)
(* chunk at mid_point = num_rows // 2, with their row ranges recomputed.   *)
(***************************************************************************)
\* a faulty bisection: the second half starts one row late (drops a row)
UploadSplitDropsRow(current_chunk) ==
    LET num_rows == Len(current_chunk.data)
        mid_point == num_rows \div 2
        chunk1_data == Slice(current_chunk.data, 0, mid_point)
        chunk2_data == Slice(current_chunk.data, mid_point + 1, num_rows)
    IN <<[current_chunk EXCEPT !.data = chunk1_data,
              !.end_row = current_chunk.start_row + Len(chunk1_data) - 1],
         [current_chunk EXCEPT !.data = chunk2_data,
              !.start_row = current_chunk.start_row + mid_point,
              !.end_row = current_chunk.start_row + mid_point + Len(chunk2_data) - 1]>>

\* a faulty bisection: the first half keeps the end row of its parent
UploadSplitKeepsEndRow(current_chunk) ==
    LET num_rows == Len(current_chunk.data)
        mid_point == num_rows \div 2
        chunk1_data == Slice(current_chunk.data, 0, mid_point)
        chunk2_data == Slice(current_chunk.data, mid_point, num_rows)
    IN <<[current_chunk EXCEPT !.data = chunk1_data],
         [current_chunk EXCEPT !.data = chunk2_data,
              !.start_row = current_chunk.start_row + mid_point,
              !.end_row = current_chunk.start_row + mid_point + Len(chunk2_data) - 1]>>

UploadSplit(current_chunk) ==
    LET num_rows == Len(current_chunk.data)
        mid_point == num_rows \div 2
        chunk1_data == Slice(current_chunk.data, 0, mid_point)
        chunk2_data == Slice(current_chunk.data, mid_point, num_rows)
    IN <<[data |-> chunk1_data,
          start_row |-> current_chunk.start_row,
          end_row |-> current_chunk.start_row + Len(chunk1_data) - 1,
          start_col |-> current_chunk.start_col,
          end_col |-> current_chunk.end_col],
         [data |-> chunk2_data,
          start_row |-> current_chunk.start_row + mid_point,
          end_row |-> current_chunk.start_row + mid_point + Len(chunk2_data) - 1,
          start_col |-> current_chunk.start_col,
          end_col |-> current_chunk.end_col]>>

\* the bisection of _append_chunk_with_auto_split
AppendSplit(current_values) ==
    LET num_rows == Len(current_values)
        mid_point == num_rows \div 2
    IN <<Slice(current_values, 0, mid_point),
         Slice(current_values, mid_point, num_rows)>>

\* a faulty size test: a chunk of one row is split again
CannotSplitOffByOne(num_rows) == num_rows <= 0

\* num_rows <= 1: the chunk cannot be split any further
CannotSplit(num_rows) == num_rows <= 1

\* a faulty code test: every error code is taken for "request too large"
IsTooLargeAnyError(error_code) == error_code # 0

\* error_code == self.ERROR_CODE_REQUEST_TOO_LARGE
IsTooLarge(error_code) == error_code = ERROR_CODE_REQUEST_TOO_LARGE

\* a faulty order of the pushes: chunk1 first, so that chunk2 is sent first
PushHalvesSwapped(stack, halves) == Append(Append(stack, halves[1]), halves[2])

\* the two halves pushed on the stack: chunk2 first, then chunk1, so that
\* chunk1 is popped next
PushHalves(stack, halves) == Append(Append(stack, halves[2]), halves[1])

(***************************************************************************)
(* The chunked range transfer.  One action is one iteration of the loop of *)
(* _upload_chunk_with_auto_split (or _append_chunk_with_auto_split): pop a *)
(* chunk, send it, and act on the answer; when the stack empties the       *)
(* function returns True to write_sheet_data (append_sheet_data), whose    *)
(* for loop takes the next initial chunk or returns True.                  *)
(***************************************************************************)
XferIdle ==
    /\ op = "none" /\ values = <<>> /\ row_batch_size = 0 /\ col_batch_size = 0
    /\ data_chunks = <<>> /\ chunk_i = 0 /\ chunk_stack = <<>>
    /\ values_stack = <<>> /\ sent = <<>> /\ xpc = "idle" /\ xresult = "none"

SyncIdle ==
    /\ df = <<>> /\ index_column = FALSE /\ key_field_type = "none"
    /\ batch_size = 0 /\ remote = <<>> /\ next_id = 0 /\ sync_mode = "none"
    /\ records_to_update = <<>> /\ records_to_create = <<>>
    /\ record_ids_to_delete = <<>> /\ phase_ok = <<>> /\ batch_i = 0
    /\ success_count = 0 /\ calls = <<>> /\ runs = 0 /\ spc = "off"
    /\ history = <<>> /\ existing_records = <<>>
    /\ sresult = "none"

SheetIdle ==
    /\ sheet_rows = <<>> /\ selective_sync = FALSE /\ sheet_ops = <<>>
    /\ pending_rows = <<>> /\ hpc = "off" /\ hresult = "none"

NoWaitLimit == -1

NoStep == [gate |-> "none", thunk |-> "none", should_retry |-> "none",
           wait |-> "none", delay |-> 0, attempt |-> 0]

EngineIdle ==
    field_calls = <<>> /\ table_fields = {} /\ create_missing_fields = FALSE

RetryIdle ==
    /\ retry_type = "none" /\ initial_delay = 0 /\ max_retries = 0
    /\ max_wait_time = NoWaitLimit /\ multiplier = 0 /\ increment = 0
    /\ rate_limited = FALSE /\ attempt = 0 /\ elapsed = 0
    /\ invocations = 0 /\ last_step = NoStep /\ rpc = "off" /\ rresult = "none"

NoThreads == <<>>

LimiterIdle ==
    /\ limiter_type = "none" /\ limiter_delay = 0 /\ window_size = 0
    /\ max_requests = 0 /\ now = 0 /\ last_request_time = 0
    /\ request_timestamps = <<>> /\ window_start_time = 0
    /\ current_window_requests = 0 /\ admissions = <<>>
    /\ thread_pc = NoThreads /\ thread_local = NoThreads

CallApiIdle ==
    /\ api_path = "none" /\ api_attempt = 0 /\ status_code = 0
    /\ api_result = "none"

CancelIdle == cancel_requested = FALSE

HistoryIdle == request_calls = <<>> /\ call_iterations = 0

PagesIdle ==
    /\ pages = <<>> /\ page_token = 0 /\ all_records = <<>>
    /\ page_requests = <<>> /\ ppc = "off"

SelectiveIdle == selected_positions = {} /\ value_ranges = <<>> /\ wpc = "off"

GlobalIdle ==
    /\ _instance = 0 /\ _controller = 0 /\ _lock = 0 /\ objects_made = 0
    /\ configured = 0 /\ global_pc = NoThreads /\ global_ref = NoThreads
    /\ global_got = NoThreads

ProbesIdle == limiter_probes = 0 /\ can_proceed_returned = "none"

MoreIdle ==
    HistoryIdle /\ PagesIdle /\ SelectiveIdle /\ GlobalIdle /\ ProbesIdle

RestIdle == LimiterIdle /\ CallApiIdle /\ CancelIdle /\ MoreIdle

XferInit ==
    /\ SyncIdle
    /\ SheetIdle
    /\ EngineIdle
    /\ RestIdle
    /\ RetryIdle
    /\ op \in {"write", "append"}
    /\ \E n \in 0..MaxRows, m \in 1..MaxCols : values = Grid(n, m)
    /\ row_batch_size \in 1..MaxRowBatch
    /\ col_batch_size \in IF op = "write" THEN 1..MaxCols ELSE {0}
    /\ data_chunks = <<>> /\ chunk_i = 0 /\ chunk_stack = <<>>
    /\ values_stack = <<>> /\ sent = <<>> /\ xpc = "start" /\ xresult = "none"

\* the transfer returns (or, with "raised", an exception leaves it)
Return(result) == xpc' = "done" /\ xresult' = result

\* write_sheet_data up to its first call of _upload_chunk_with_auto_split
write_sheet_data ==
    /\ UNCHANGED <<svars, hvars, evars, rvars, rest_vars>>
    /\ xpc = "start" /\ op = "write"
    /\ UNCHANGED <<op, values, row_batch_size, col_batch_size, values_stack, sent>>
    /\ IF values = <<>>
       THEN Return("true") /\ UNCHANGED <<data_chunks, chunk_i, chunk_stack>>
       ELSE LET chunks == CreateDataChunks(values, row_batch_size, col_batch_size)
            IN /\ data_chunks' = chunks
               /\ IF chunks = <<>>
                  THEN Return("true") /\ UNCHANGED <<chunk_i, chunk_stack>>
                  ELSE /\ chunk_i' = 1
                       /\ chunk_stack' = <<chunks[1]>>
                       /\ xpc' = "loop" /\ UNCHANGED xresult

\* append_sheet_data up to its first call of _append_chunk_with_auto_split:
\* the chunks are cut by rows only (col_batch_size = len(values[0]))
append_sheet_data ==
    /\ UNCHANGED <<svars, hvars, evars, rvars, rest_vars>>
    /\ xpc = "start" /\ op = "append"
    /\ UNCHANGED <<op, values, row_batch_size, col_batch_size, chunk_stack, sent>>
    /\ IF values = <<>>
       THEN Return("true") /\ UNCHANGED <<data_chunks, chunk_i, values_stack>>
       ELSE LET chunks == CreateDataChunks(values, row_batch_size, Len(values[1]))
            IN /\ data_chunks' = chunks
               /\ IF chunks = <<>>
                  THEN Return("true") /\ UNCHANGED <<chunk_i, values_stack>>
                  ELSE /\ chunk_i' = 1
                       /\ values_stack' = <<chunks[1].data>>
                       /\ xpc' = "loop" /\ UNCHANGED xresult

\* one iteration of the while loop of _upload_chunk_with_auto_split
upload_chunk_with_auto_split ==
    /\ UNCHANGED <<svars, hvars, evars, rvars, rest_vars>>
    /\ xpc = "loop" /\ op = "write"
    /\ UNCHANGED <<op, values, row_batch_size, col_batch_size, data_chunks, values_stack>>
    /\ \E resp \in Responses :
        LET current_chunk == Top(chunk_stack)
            rest == Pop(chunk_stack)
            num_rows == Len(current_chunk.data)
        IN /\ sent' = Append(sent, [kind |-> "write", chunk |-> current_chunk,
                                    resp |-> resp])
           /\ IF resp = "raise"
              THEN Return("raised") /\ chunk_stack' = rest /\ UNCHANGED chunk_i
              ELSE IF Success(resp)
              THEN IF rest # <<>>
                   THEN chunk_stack' = rest /\ UNCHANGED <<chunk_i, xpc, xresult>>
                   ELSE IF chunk_i < Len(data_chunks)
                   THEN /\ chunk_i' = chunk_i + 1
                        /\ chunk_stack' = <<data_chunks[chunk_i + 1]>>
                        /\ UNCHANGED <<xpc, xresult>>
                   ELSE Return("true") /\ chunk_stack' = rest /\ UNCHANGED chunk_i
              ELSE IF IsTooLarge(ErrorCode(resp))
              THEN IF CannotSplit(num_rows)
                   THEN Return("false") /\ chunk_stack' = rest /\ UNCHANGED chunk_i
                   ELSE /\ chunk_stack' = PushHalves(rest, UploadSplit(current_chunk))
                        /\ UNCHANGED <<chunk_i, xpc, xresult>>
              ELSE Return("false") /\ chunk_stack' = rest /\ UNCHANGED chunk_i

\* one iteration of the while loop of _append_chunk_with_auto_split
append_chunk_with_auto_split ==
    /\ UNCHANGED <<svars, hvars, evars, rvars, rest_vars>>
    /\ xpc = "loop" /\ op = "append"
    /\ UNCHANGED <<op, values, row_batch_size, col_batch_size, data_chunks, chunk_stack>>
    /\ \E resp \in Responses :
        LET current_values == Top(values_stack)
            rest == Pop(values_stack)
            num_rows == Len(current_values)
        IN /\ sent' = Append(sent, [kind |-> "append",
                                    chunk |-> [data |-> current_values,
                                               start_row |-> 0, end_row |-> 0,
                                               start_col |-> 0, end_col |-> 0],
                                    resp |-> resp])
           /\ IF resp = "raise"
              THEN Return("raised") /\ values_stack' = rest /\ UNCHANGED chunk_i
              ELSE IF Success(resp)
              THEN IF rest # <<>>
                   THEN values_stack' = rest /\ UNCHANGED <<chunk_i, xpc, xresult>>
                   ELSE IF chunk_i < Len(data_chunks)
                   THEN /\ chunk_i' = chunk_i + 1
                        /\ values_stack' = <<data_chunks[chunk_i + 1].data>>
                        /\ UNCHANGED <<xpc, xresult>>
                   ELSE Return("true") /\ values_stack' = rest /\ UNCHANGED chunk_i
              ELSE IF IsTooLarge(ErrorCode(resp))
              THEN IF CannotSplit(num_rows)
                   THEN Return("false") /\ values_stack' = rest /\ UNCHANGED chunk_i
                   ELSE /\ values_stack' = PushHalves(rest, AppendSplit(current_values))
                        /\ UNCHANGED <<chunk_i, xpc, xresult>>
              ELSE Return("false") /\ values_stack' = rest /\ UNCHANGED chunk_i

XferNext ==
    \/ write_sheet_data
    \/ append_sheet_data
    \/ upload_chunk_with_auto_split
    \/ append_chunk_with_auto_split

SpecXfer == XferInit /\ [][XferNext]_vars

\* the loops run on: nothing but the remote's answer delays an iteration
FairSpecXfer == SpecXfer /\ WF_vars(XferNext)

(***************************************************************************)
(* What the remote accepted, and what the transfer was given.              *)
(***************************************************************************)
Accepted == SelectIdx(sent, LAMBDA e : e.resp = "ok")
AcceptedData == Concat([i \in 1..Len(Accepted) |-> Accepted[i].chunk.data])

\* the initial chunks whose auto-split call has returned True
CallsReturnedTrue ==
    IF xresult = "true" THEN Len(data_chunks)
    ELSE IF chunk_i > 0 THEN chunk_i - 1 ELSE 0

ChunkData(k) == Concat([i \in 1..k |-> data_chunks[i].data])

IsPrefix(s, t) == Len(s) <= Len(t) /\ SubSeq(t, 1, Len(s)) = s

\* C1: bisection conservation.  Whenever an auto-split call has returned True,
\* the rows the remote accepted, in the order they were sent, are the rows of
\* the initial chunks handled so far: the accepted data starts with the data
\* of every chunk whose call returned True, and once the transfer has returned
\* True it is exactly the data of all initial chunks, nothing dropped,
\* duplicated or reordered.
C1_BisectionConservation ==
    /\ xpc \in {"loop", "done"} =>
          IsPrefix(ChunkData(CallsReturnedTrue), AcceptedData)
    /\ (xpc = "done" /\ xresult = "true") =>
          AcceptedData = ChunkData(Len(data_chunks))

\* a transfer that returned True after a chunk of three or more rows was
\* refused as too large (so halves were split again or sent in turn)
C1_Witness ==
    /\ xpc = "done" /\ xresult = "true"
    /\ \E i \in 1..Len(sent) :
          sent[i].resp = "too_large" /\ Len(sent[i].chunk.data) >= 3

\* a one-row request answered "too large"
SingleRowTooLarge(e) == e.resp = "too_large" /\ Len(e.chunk.data) = 1

\* C2: bisection termination.  Under every sequence of answers the transfer
\* ends; and a request of exactly one row answered "too large" is the last
\* request ever sent: the transfer has returned False and the row is on no
\* stack.
C2_BisectionTermination ==
    /\ <>(xpc = "done")
    /\ [](\A i \in 1..Len(sent) :
            SingleRowTooLarge(sent[i]) =>
               /\ i = Len(sent)
               /\ xpc = "done" /\ xresult = "false"
               /\ \A j \in 1..Len(chunk_stack) : chunk_stack[j] # sent[i].chunk
               /\ \A j \in 1..Len(values_stack) :
                     values_stack[j] # sent[i].chunk.data)

\* a one-row chunk, reached by bisection, was answered "too large"
C2_Witness ==
    /\ Len(sent) >= 2
    /\ SingleRowTooLarge(sent[Len(sent)])
    /\ xpc = "done"

\* the remote of C3: "too large" for more than T rows, success otherwise
ThresholdRemote(T) ==
    \A i \in 1..Len(sent) :
        sent[i].resp = IF Len(sent[i].chunk.data) > T THEN "too_large" ELSE "ok"

\* the rows accepted for the column block that starts at column c
RowsAccepted(c) ==
    SumSeq([i \in 1..Len(Accepted) |->
               IF Accepted[i].chunk.start_col = c
               THEN Len(Accepted[i].chunk.data) ELSE 0])

ColumnBlocks == {data_chunks[i].start_col : i \in 1..Len(data_chunks)}

\* C3: threshold convergence of write_sheet_data.  For every threshold T >= 1,
\* a run in which the remote answers "too large" exactly to the writes of more
\* than T rows eventually returns True; every accepted write then has at most
\* T rows, and the rows accepted (for each column block of the grid) add up to
\* the number of rows given.
C3_ThresholdConvergence ==
    \A T \in 1..MaxThreshold :
        /\ <>(op = "write" =>
                \/ ~ThresholdRemote(T)
                \/ xpc = "done" /\ xresult = "true")
        /\ []((op = "write" /\ xpc = "done" /\ ThresholdRemote(T)) =>
                /\ xresult = "true"
                /\ \A i \in 1..Len(Accepted) : Len(Accepted[i].chunk.data) <= T
                /\ \A c \in ColumnBlocks : RowsAccepted(c) = Len(values))

\* a write of four rows in one initial chunk against a threshold of one row
\* has returned True after bisecting twice
C3_Witness ==
    /\ op = "write" /\ xpc = "done" /\ xresult = "true"
    /\ Len(values) = 4 /\ row_batch_size >= 3
    /\ ThresholdRemote(1)
    /\ \E i \in 1..Len(sent) : sent[i].resp = "too_large"

\* a request that failed otherwise than by "too large"
OtherFailure(e) == e.resp \in {"error", "no_code", "raise"}

\* C4 as stated: after a request fails with anything but "too large", the
\* transfer has returned False and no further request is sent.
C4_OtherFailureReturnsFalse ==
    \A i \in 1..Len(sent) :
        OtherFailure(sent[i]) =>
            i = Len(sent) /\ xpc = "done" /\ xresult = "false"

\* C4 as amended: after a request fails with anything but "too large", no
\* further request is sent, neither from the bisection stack nor for a later
\* initial chunk, and the transfer has ended without success: it returned
\* False, or, when the request raised, the exception left the transfer.
C4_OtherFailureEndsTransfer ==
    \A i \in 1..Len(sent) :
        OtherFailure(sent[i]) =>
            /\ i = Len(sent)
            /\ xpc = "done"
            /\ xresult = IF sent[i].resp = "raise" THEN "raised" ELSE "false"

\* a request failed with an error code while halves were still on the stack
\* and a later initial chunk was still to come
C4_Witness ==
    /\ xpc = "done" /\ Len(sent) >= 1
    /\ sent[Len(sent)].resp = "error"
    /\ chunk_stack # <<>>
    /\ chunk_i < Len(data_chunks)

(***************************************************************************)
(* Values of the key column, locally (cells of the DataFrame) and remotely *)
(* (field values as the table service returns them).                       *)
(***************************************************************************)
NULL == [kind |-> "null", v |-> ""]          \* NaN / None: pd.isnull
Text(str) == [kind |-> "str", v |-> str]     \* a Python str
Bool(str) == [kind |-> "bool", v |-> str]    \* a Python bool, by its str()
Rich(str) == [kind |-> "rich", v |-> str]    \* [{'text': str, 'type': 'text'}]
NoField == [kind |-> "absent", v |-> ""]     \* the record has no such field

LocalKeys == {Text("a"), Text("yes"), NULL}
RemoteKeys == {NoField, Rich("a"), Text("yes"), Text("nan")}

\* str(value) of Python
PyStr(value) == IF value.kind = "null" THEN "nan" ELSE value.v

\* hashlib.md5(...).hexdigest(), taken to be free of collisions
md5(str) == <<"md5", str>>
None == <<"None">>

\* DataConverter.get_index_value_hash: every row of the DataFrame has the
\* index column, so the hash is None only when no index column is configured
get_index_value_hash(row, idx) ==
    IF idx THEN md5(PyStr(row.key)) ELSE None

\* the index value build_record_index reads from a raw field value
IndexValue(raw_value) ==
    IF raw_value.kind = "rich" THEN raw_value.v ELSE PyStr(raw_value)

\* a faulty index: the first record with a key value wins, not the last
build_record_index_first_wins(records, idx) ==
    IF ~idx THEN <<>>
    ELSE LET keyed == {i \in 1..Len(records) : records[i].key # NoField}
             hashes == {md5(IndexValue(records[i].key)) : i \in keyed}
         IN [h \in hashes |->
                records[CHOOSE i \in keyed :
                    /\ md5(IndexValue(records[i].key)) = h
                    /\ \A j \in keyed :
                          md5(IndexValue(records[j].key)) = h => j >= i]]

\* a faulty index: a record without the key field is indexed as well
build_record_index_keeps_unkeyed(records, idx) ==
    IF ~idx THEN <<>>
    ELSE LET all == 1..Len(records)
             hashes == {md5(IndexValue(records[i].key)) : i \in all}
         IN [h \in hashes |->
                records[CHOOSE i \in all :
                    /\ md5(IndexValue(records[i].key)) = h
                    /\ \A j \in all :
                          md5(IndexValue(records[j].key)) = h => j <= i]]

\* DataConverter.build_record_index: index[index_hash] = record in listing
\* order, so the last record with a key value wins
build_record_index(records, idx) ==
    IF ~idx THEN <<>>
    ELSE LET keyed == {i \in 1..Len(records) : records[i].key # NoField}
             hashes == {md5(IndexValue(records[i].key)) : i \in keyed}
         IN [h \in hashes |->
                records[CHOOSE i \in keyed :
                    /\ md5(IndexValue(records[i].key)) = h
                    /\ \A j \in keyed :
                          md5(IndexValue(records[j].key)) = h => j <= i]]

\* DataConverter.smart_convert_value on a str: the words for true and false
\* become a bool, anything else stays the string
smart_convert_value(value) ==
    IF value.kind = "str" /\ value.v \in {"true", "yes", "1"} THEN Bool("True")
    ELSE IF value.kind = "str" /\ value.v \in {"false", "no", "0"} THEN Bool("False")
    ELSE Text(PyStr(value))

\* DataConverter.convert_field_value_safe for the key column: no field type
\* known: smart conversion; a text field (type 1): str(value)
convert_field_value_safe(value, field_type) ==
    IF field_type = "none" THEN smart_convert_value(value)
    ELSE Text(PyStr(value))

\* the "fields" built from a row: a null cell is left out of the fields
Fields(row, field_type) ==
    [key |-> IF row.key = NULL THEN NoField
             ELSE convert_field_value_safe(row.key, field_type),
     n |-> row.n]

\* DataConverter.df_to_records
df_to_records(rows, field_type) ==
    [i \in 1..Len(rows) |-> Fields(rows[i], field_type)]

\* index_hash and index_hash in existing_index
Matched(index_hash, existing_index) ==
    index_hash # None /\ index_hash \in DOMAIN existing_index

WithId(fields, record_id) ==
    [record_id |-> record_id, key |-> fields.key, n |-> fields.n]

(***************************************************************************)
(* The plans of the four modes on a bitable: what each mode's method       *)
(* computes from the DataFrame and the records it read, before any batch   *)
(* is sent.                                                                *)
(***************************************************************************)
EmptyPlan == [delete |-> <<>>, update |-> <<>>, create |-> <<>>]

\* _sync_full_bitable: matched rows are updates (with the record_id of the
\* indexed record), all other rows are creates
FullPlan(rows, current_records, idx, field_type) ==
    IF ~idx
    THEN [EmptyPlan EXCEPT !.create = df_to_records(rows, field_type)]
    ELSE LET existing_index == build_record_index(current_records, idx)
             F[i \in 0..Len(rows)] ==
                 IF i = 0 THEN EmptyPlan
                 ELSE LET index_hash == get_index_value_hash(rows[i], idx)
                          record == Fields(rows[i], field_type)
                      IN IF Matched(index_hash, existing_index)
                         THEN [F[i - 1] EXCEPT !.update = Append(@,
                                  WithId(record, existing_index[index_hash].record_id))]
                         ELSE [F[i - 1] EXCEPT !.create = Append(@, record)]
         IN F[Len(rows)]

\* a faulty incremental plan: the index is never consulted
IncrementalPlanCreatesAll(rows, current_records, idx, field_type) ==
    [EmptyPlan EXCEPT !.create = df_to_records(rows, field_type)]

\* _sync_incremental_bitable: only the rows that are not matched are creates
IncrementalPlan(rows, current_records, idx, field_type) ==
    IF ~idx
    THEN [EmptyPlan EXCEPT !.create = df_to_records(rows, field_type)]
    ELSE LET existing_index == build_record_index(current_records, idx)
             F[i \in 0..Len(rows)] ==
                 IF i = 0 THEN EmptyPlan
                 ELSE LET index_hash == get_index_value_hash(rows[i], idx)
                      IN IF ~Matched(index_hash, existing_index)
                         THEN [F[i - 1] EXCEPT !.create =
                                  Append(@, Fields(rows[i], field_type))]
                         ELSE F[i - 1]
         IN F[Len(rows)]

\* a faulty overwrite plan: only the rows that are not matched are created
OverwritePlanSkipsMatched(rows, current_records, idx, field_type) ==
    LET existing_index == build_record_index(current_records, idx)
        F[i \in 0..Len(rows)] ==
            IF i = 0 THEN EmptyPlan
            ELSE LET index_hash == get_index_value_hash(rows[i], idx)
                 IN IF Matched(index_hash, existing_index)
                    THEN [F[i - 1] EXCEPT !.delete =
                             Append(@, existing_index[index_hash].record_id)]
                    ELSE [F[i - 1] EXCEPT !.create =
                             Append(@, Fields(rows[i], field_type))]
    IN F[Len(rows)]

\* a faulty overwrite plan: without rows, every record read is deleted
OverwritePlanClearsOnEmpty(rows, current_records, idx, field_type) ==
    [delete |-> [i \in 1..Len(current_records) |-> current_records[i].record_id],
     update |-> <<>>,
     create |-> df_to_records(rows, field_type)]

\* _sync_overwrite_bitable: the record_id of every matched row is deleted,
\* every row is created
OverwritePlan(rows, current_records, idx, field_type) ==
    LET existing_index == build_record_index(current_records, idx)
        F[i \in 0..Len(rows)] ==
            IF i = 0 THEN <<>>
            ELSE LET index_hash == get_index_value_hash(rows[i], idx)
                 IN IF Matched(index_hash, existing_index)
                    THEN Append(F[i - 1], existing_index[index_hash].record_id)
                    ELSE F[i - 1]
    IN [delete |-> F[Len(rows)],
        update |-> <<>>,
        create |-> df_to_records(rows, field_type)]

\* a faulty clone plan: only the records with a key field are deleted
ClonePlanDeletesKeyed(rows, current_records, idx, field_type) ==
    [delete |-> [i \in 1..Len(SelectIdx(current_records,
                                         LAMBDA rec : rec.key # NoField)) |->
                    SelectIdx(current_records,
                              LAMBDA rec : rec.key # NoField)[i].record_id],
     update |-> <<>>,
     create |-> df_to_records(rows, field_type)]

\* _sync_clone_bitable: every record read is deleted, every row is created
ClonePlan(rows, current_records, idx, field_type) ==
    [delete |-> [i \in 1..Len(current_records) |-> current_records[i].record_id],
     update |-> <<>>,
     create |-> df_to_records(rows, field_type)]

(***************************************************************************)
(* The remote table under a batch call that succeeded.                     *)
(***************************************************************************)
RECURSIVE CreateAll(_, _, _)
CreateAll(table, batch, id) ==
    IF batch = <<>> THEN table
    ELSE CreateAll(Append(table, WithId(Head(batch), id)), Tail(batch), id + 1)

UpdateAll(table, batch) ==
    [i \in 1..Len(table) |->
        LET hits == {j \in 1..Len(batch) : batch[j].record_id = table[i].record_id}
        IN IF hits = {} THEN table[i]
           ELSE LET rec == batch[CHOOSE j \in hits : \A k \in hits : k <= j]
                IN [record_id |-> table[i].record_id,
                    key |-> IF rec.key = NoField THEN table[i].key ELSE rec.key,
                    n |-> rec.n]]

DeleteAll(table, batch) ==
    SelectIdx(table, LAMBDA rec : \A j \in 1..Len(batch) : batch[j] # rec.record_id)

ApplyBatch(table, kind, batch, id) ==
    CASE kind = "create" -> CreateAll(table, batch, id)
      [] kind = "update" -> UpdateAll(table, batch)
      [] kind = "delete" -> DeleteAll(table, batch)

(***************************************************************************)
(* A synchronisation run on a bitable.  The mode's method reads the records*)
(* (get_all_bitable_records), computes its plan and calls                  *)
(* process_in_batches for the delete, the update and the create list in    *)
(* that order; one action is one iteration of the loop of                  *)
(* process_in_batches.  A call on an empty list sends nothing and returns  *)
(* True, as does a phase the method skips for an empty list.               *)
(***************************************************************************)
SeqsUpTo(S, n) == UNION {[1..k -> S] : k \in 0..n}

SyncStart(field_types) ==
    /\ XferIdle
    /\ SheetIdle
    /\ EngineIdle
    /\ RestIdle
    /\ RetryIdle
    /\ \E ks \in SeqsUpTo(LocalKeys, MaxLocal) :
          df = [i \in 1..Len(ks) |-> [key |-> ks[i], n |-> i]]
    /\ \E ks \in SeqsUpTo(RemoteKeys, MaxRemote) :
          remote = [i \in 1..Len(ks) |-> [record_id |-> i, key |-> ks[i], n |-> 0]]
    /\ next_id = Len(remote) + 1
    /\ index_column \in BOOLEAN
    /\ key_field_type \in field_types
    /\ batch_size \in 1..MaxBatch
    /\ sync_mode = "none"
    /\ records_to_update = <<>> /\ records_to_create = <<>>
    /\ record_ids_to_delete = <<>>
    /\ phase_ok = [delete |-> TRUE, update |-> TRUE, create |-> TRUE]
    /\ batch_i = 0 /\ success_count = 0 /\ calls = <<>> /\ runs = 0
    /\ history = <<>> /\ existing_records = <<>>
    /\ spc = "idle" /\ sresult = "none"

SyncInit == SyncStart({"text"})

PhaseOrder == <<"delete", "update", "create">>

PhaseItems(plan, phase) ==
    CASE phase = "delete" -> plan.delete
      [] phase = "update" -> plan.update
      [] phase = "create" -> plan.create

\* the first phase after position k whose list is not empty, or "done"
NextPhase(plan, k) ==
    LET later == {j \in (k + 1)..Len(PhaseOrder) :
                     PhaseItems(plan, PhaseOrder[j]) # <<>>}
    IN IF later = {} THEN "done"
       ELSE PhaseOrder[CHOOSE j \in later : \A i \in later : j <= i]

PhaseIndex(phase) == CHOOSE k \in 1..Len(PhaseOrder) : PhaseOrder[k] = phase

\* a faulty result: the phases are joined by "or"
AnyOk(ok) == ok.delete /\ (ok.update \/ ok.create)

\* a faulty result: the outcome of the delete phase is dropped
CreateOk(ok) == ok.update /\ ok.create

\* "return delete_success and create_success" and its like
AllOk(ok) == ok.delete /\ ok.update /\ ok.create

\* the method has its plan and enters its first call of process_in_batches
StartRun(mode, records, plan) ==
    /\ sync_mode' = mode
    /\ runs' = runs + 1
    /\ existing_records' = records
    /\ record_ids_to_delete' = plan.delete
    /\ records_to_update' = plan.update
    /\ records_to_create' = plan.create
    /\ phase_ok' = [delete |-> TRUE, update |-> TRUE, create |-> TRUE]
    /\ batch_i' = 0 /\ success_count' = 0 /\ calls' = <<>>
    /\ spc' = NextPhase(plan, 0)
    /\ sresult' = IF NextPhase(plan, 0) = "done" THEN "true" ELSE "none"
    /\ UNCHANGED <<df, index_column, key_field_type, batch_size, remote,
                   next_id, history>>

\* the method ends before any plan: it returns False, or an exception of
\* get_all_records leaves it
EndRun(mode, result) ==
    /\ sync_mode' = mode
    /\ runs' = runs + 1
    /\ existing_records' = <<>>
    /\ record_ids_to_delete' = <<>> /\ records_to_update' = <<>>
    /\ records_to_create' = <<>>
    /\ phase_ok' = [delete |-> TRUE, update |-> TRUE, create |-> TRUE]
    /\ batch_i' = 0 /\ success_count' = 0 /\ calls' = <<>>
    /\ spc' = "done" /\ sresult' = result
    /\ UNCHANGED <<df, index_column, key_field_type, batch_size, remote,
                   next_id, history>>

\* a method that reads the records first: BitableAPI.get_all_records returns
\* them or raises
ReadThenRun(mode, plan) ==
    \E read \in {"ok", "raise"} :
        IF read = "raise" THEN EndRun(mode, "raised")
        ELSE StartRun(mode, remote, plan)

sync_full ==
    /\ UNCHANGED <<xvars, hvars, evars, rvars, rest_vars>>
    /\ spc = "idle"
    /\ sync_mode \in {"none", "FULL"}
    /\ IF ~index_column
       THEN StartRun("FULL", <<>>, FullPlan(df, <<>>, FALSE, key_field_type))
       ELSE ReadThenRun("FULL",
                        FullPlan(df, remote, index_column, key_field_type))

sync_incremental ==
    /\ UNCHANGED <<xvars, hvars, evars, rvars, rest_vars>>
    /\ spc = "idle"
    /\ sync_mode \in {"none", "INCREMENTAL"}
    /\ IF ~index_column
       THEN StartRun("INCREMENTAL", <<>>,
                     IncrementalPlan(df, <<>>, FALSE, key_field_type))
       ELSE ReadThenRun("INCREMENTAL",
                        IncrementalPlan(df, remote, index_column, key_field_type))

sync_overwrite ==
    /\ UNCHANGED <<xvars, hvars, evars, rvars, rest_vars>>
    /\ spc = "idle"
    /\ sync_mode \in {"none", "OVERWRITE"}
    /\ IF ~index_column
       THEN EndRun("OVERWRITE", "false")
       ELSE ReadThenRun("OVERWRITE",
                        OverwritePlan(df, remote, index_column, key_field_type))

sync_clone ==
    /\ UNCHANGED <<xvars, hvars, evars, rvars, rest_vars>>
    /\ spc = "idle"
    /\ sync_mode \in {"none", "CLONE"}
    /\ ReadThenRun("CLONE",
                        ClonePlan(df, remote, index_column, key_field_type))

\* a faulty loop: it stops at the first batch that fails
LoopEndsStopAtFailure(i, items, size, ok) == ~ok \/ i + size >= Len(items)

\* "for i in range(0, len(items), batch_size)" has no further batch; the
\* outcome of the batch just sent does not end the loop
LoopEnds(i, items, size, ok) == i + size >= Len(items)

\* one iteration of the loop of process_in_batches: the processor returns
\* True, returns False, or raises (caught and logged)
process_in_batches ==
    /\ UNCHANGED <<xvars, hvars, evars, rvars, rest_vars>>
    /\ spc \in {"delete", "update", "create"}
    /\ \E outcome \in {"ok", "false", "raise"} :
        LET plan == [delete |-> record_ids_to_delete,
                     update |-> records_to_update,
                     create |-> records_to_create]
            items == PhaseItems(plan, spc)
            batch == Slice(items, batch_i, batch_i + batch_size)
            total_batches == (Len(items) + batch_size - 1) \div batch_size
            ok == outcome = "ok"
            count == IF ok THEN success_count + 1 ELSE success_count
            next == NextPhase(plan, PhaseIndex(spc))
            oks == [phase_ok EXCEPT ![spc] = (count = total_batches)]
        IN /\ calls' = Append(calls, [kind |-> spc, batch |-> batch,
                                      offset |-> batch_i, ok |-> ok])
           /\ remote' = IF ok THEN ApplyBatch(remote, spc, batch, next_id)
                        ELSE remote
           /\ next_id' = IF ok /\ spc = "create" THEN next_id + Len(batch)
                         ELSE next_id
           /\ IF ~LoopEnds(batch_i, items, batch_size, ok)
              THEN /\ batch_i' = batch_i + batch_size
                   /\ success_count' = count
                   /\ UNCHANGED <<phase_ok, spc, sresult>>
              ELSE /\ phase_ok' = oks
                   /\ batch_i' = 0 /\ success_count' = 0
                   /\ spc' = next
                   /\ sresult' = IF next # "done" THEN "none"
                                 ELSE IF AllOk(oks) THEN "true" ELSE "false"
    /\ UNCHANGED <<df, index_column, key_field_type, batch_size, sync_mode,
                   records_to_update, records_to_create, record_ids_to_delete,
                   runs, history, existing_records>>

\* the tool is run again with the same dataset and configuration
run_again ==
    /\ UNCHANGED <<xvars, hvars, evars, rvars, rest_vars>>
    /\ spc = "done" /\ runs < MaxRuns
    /\ spc' = "idle" /\ sresult' = "none"
    /\ history' = Append(history, sresult)
    /\ UNCHANGED <<df, index_column, key_field_type, batch_size, remote,
                   next_id, sync_mode, records_to_update, records_to_create,
                   record_ids_to_delete, phase_ok, batch_i, success_count,
                   calls, runs, existing_records>>

SyncNext ==
    \/ sync_full
    \/ sync_incremental
    \/ sync_overwrite
    \/ sync_clone
    \/ process_in_batches

SpecSync == SyncInit /\ [][SyncNext]_vars

\* INCREMENTAL runs, one after the other, on the same dataset
RerunInit == SyncStart({"text", "none"})

RerunNext ==
    \/ sync_incremental
    \/ process_in_batches
    \/ run_again

SpecRerun == RerunInit /\ [][RerunNext]_vars

(***************************************************************************)
(* XTFSyncEngine.sync on a bitable: ensure_fields_exist lists the fields   *)
(* of the table and creates the missing ones, then the method of the       *)
(* configured mode runs.                                                   *)
(***************************************************************************)
SyncModes == {"FULL", "INCREMENTAL", "OVERWRITE", "CLONE"}

EngineInit ==
    /\ XferIdle
    /\ SheetIdle
    /\ EngineIdle
    /\ RestIdle
    /\ RetryIdle
    /\ \E ks \in SeqsUpTo(LocalKeys, MaxLocal) :
          df = [i \in 1..Len(ks) |-> [key |-> ks[i], n |-> i]]
    /\ \E ks \in SeqsUpTo(RemoteKeys, MaxRemote) :
          remote = [i \in 1..Len(ks) |-> [record_id |-> i, key |-> ks[i], n |-> 0]]
    /\ next_id = Len(remote) + 1
    /\ index_column \in BOOLEAN
    /\ key_field_type = "text"
    /\ batch_size = MaxBatch
    /\ sync_mode \in SyncModes
    /\ records_to_update = <<>> /\ records_to_create = <<>>
    /\ record_ids_to_delete = <<>>
    /\ phase_ok = [delete |-> TRUE, update |-> TRUE, create |-> TRUE]
    /\ batch_i = 0 /\ success_count = 0 /\ calls = <<>> /\ runs = 0
    /\ history = <<>> /\ existing_records = <<>>
    /\ spc = "start" /\ sresult = "none"

\* the field calls of ensure_fields_exist by its outcome: list_fields raised,
\* no field is missing, the missing field was created, create_field failed
EnsureFieldsCalls(outcome) ==
    CASE outcome = "list_raised" -> <<"list_fields">>
      [] outcome = "all_exist" -> <<"list_fields">>
      [] outcome = "created" -> <<"list_fields", "create_field">>
      [] outcome = "create_failed" -> <<"list_fields", "create_field">>

EnsureFieldsSuccess(outcome) == outcome \in {"all_exist", "created"}

\* sync up to the call of the mode's method: "if not success: return False"
sync ==
    /\ UNCHANGED <<xvars, hvars, rvars, rest_vars>>
    /\ spc = "start"
    /\ \E outcome \in {"list_raised", "all_exist", "created", "create_failed"} :
        /\ field_calls' = EnsureFieldsCalls(outcome)
        /\ UNCHANGED <<table_fields, create_missing_fields>>
        /\ spc' = IF EnsureFieldsSuccess(outcome) THEN "idle" ELSE "done"
        /\ sresult' = IF EnsureFieldsSuccess(outcome) THEN "none" ELSE "false"
    /\ UNCHANGED <<df, index_column, key_field_type, batch_size, remote,
                   next_id, sync_mode, records_to_update, records_to_create,
                   record_ids_to_delete, phase_ok, batch_i, success_count,
                   calls, runs, history, existing_records>>

EngineNext ==
    \/ sync
    \/ sync_full
    \/ sync_incremental
    \/ sync_overwrite
    \/ sync_clone
    \/ process_in_batches

SpecEngine == EngineInit /\ [][EngineNext]_vars

(***************************************************************************)
(* An INCREMENTAL run on a sheet (_sync_incremental_sheet).  The sheet is  *)
(* its data rows below the header, each by its key cell.  The transfers    *)
(* append_sheet_data and write_sheet_data are taken whole here: they put   *)
(* the leading rows they sent into the sheet and return True when they     *)
(* sent all of them.                                                       *)
(***************************************************************************)
SheetKeys == {Text("a"), Text("yes")}

\* DataConverter.simple_convert_value on a cell of the key column
simple_convert_value(value) ==
    IF value = NULL THEN Text("") ELSE Text(PyStr(value))

\* DataConverter.df_to_values without the header row
df_to_values(rows) == [i \in 1..Len(rows) |-> simple_convert_value(rows[i].key)]

\* XTFSyncEngine.get_current_sheet_data: the rows read, or an empty
\* DataFrame when the read raised
get_current_sheet_data(read) == IF read = "raise" THEN <<>> ELSE sheet_rows

\* DataConverter.build_data_index, by its keys
build_data_index(current_df) ==
    {md5(PyStr(current_df[i])) : i \in 1..Len(current_df)}

\* the rows of df whose index hash is not in the index of the sheet
NewRows(rows, current_index) ==
    SelectIdx(rows, LAMBDA row : md5(PyStr(row.key)) \notin current_index)

\* cells written over the data rows from offset at on
Overwrite(rows, at, cells) ==
    [i \in 1..(IF Len(rows) > at + Len(cells) THEN Len(rows) ELSE at + Len(cells)) |->
        IF i > at /\ i <= at + Len(cells) THEN cells[i - at]
        ELSE IF i <= Len(rows) THEN rows[i] ELSE Text("")]

SheetOp(name, at, n, ok) ==
    [op |-> name, at |-> at, rows |-> n, had |-> Len(sheet_rows), ok |-> ok]

SheetInit ==
    /\ XferIdle
    /\ EngineIdle
    /\ RestIdle
    /\ RetryIdle
    /\ \E ks \in SeqsUpTo(LocalKeys, MaxLocal) :
          df = [i \in 1..Len(ks) |-> [key |-> ks[i], n |-> i]]
    /\ index_column \in BOOLEAN
    /\ key_field_type = "none" /\ batch_size = 0 /\ remote = <<>>
    /\ next_id = 0 /\ sync_mode = "INCREMENTAL"
    /\ records_to_update = <<>> /\ records_to_create = <<>>
    /\ record_ids_to_delete = <<>> /\ phase_ok = <<>> /\ batch_i = 0
    /\ success_count = 0 /\ calls = <<>> /\ runs = 0 /\ spc = "off"
    /\ history = <<>> /\ existing_records = <<>> /\ sresult = "none"
    /\ sheet_rows \in SeqsUpTo(SheetKeys, MaxRemote)
    /\ selective_sync \in BOOLEAN
    /\ sheet_ops = <<>> /\ pending_rows = <<>>
    /\ hpc = "idle" /\ hresult = "none"

\* the method hands rows to _append_selective_columns or to sync_clone
HandOver(ops, method, rows) ==
    /\ sheet_ops' = ops
    /\ pending_rows' = rows
    /\ hpc' = method
    /\ UNCHANGED <<sheet_rows, hresult>>

\* "return self.api.append_sheet_data(...)": nothing is sent for no rows
AppendSheetData(ops, rows) ==
    /\ pending_rows' = <<>>
    /\ hpc' = "done"
    /\ IF rows = <<>>
       THEN /\ sheet_ops' = ops /\ hresult' = "true"
            /\ UNCHANGED sheet_rows
       ELSE \E n \in 0..Len(rows) :
            /\ sheet_rows' = sheet_rows \o SubSeq(df_to_values(rows), 1, n)
            /\ sheet_ops' = Append(ops, SheetOp("append", Len(sheet_rows),
                                                Len(rows), n = Len(rows)))
            /\ hresult' = IF n = Len(rows) THEN "true" ELSE "false"

_sync_incremental_sheet ==
    /\ UNCHANGED <<xvars, svars, evars, rvars, rest_vars, selective_sync>>
    /\ hpc = "idle"
    /\ IF ~index_column
       THEN IF selective_sync
            THEN HandOver(sheet_ops, "selective", df)
            ELSE AppendSheetData(sheet_ops, df)
       ELSE \E read \in {"ok", "raise"} :
            LET current_df == get_current_sheet_data(read)
                ops == Append(sheet_ops, SheetOp("read", 0, 0, read = "ok"))
                new_rows == NewRows(df, build_data_index(current_df))
            IN IF current_df = <<>>
               THEN IF selective_sync
                    THEN HandOver(ops, "selective", df)
                    ELSE HandOver(ops, "clone", df)
               ELSE IF new_rows = <<>>
                    THEN /\ sheet_ops' = ops /\ pending_rows' = <<>>
                         /\ hpc' = "done" /\ hresult' = "true"
                         /\ UNCHANGED sheet_rows
                    ELSE IF selective_sync
                         THEN HandOver(ops, "selective", new_rows)
                         ELSE AppendSheetData(ops, new_rows)

\* clear_sheet_data("A1:ZZZ500000"), then write_sheet_data of the header and
\* all rows from the first row on
_sync_clone_sheet ==
    /\ UNCHANGED <<xvars, svars, evars, rvars, rest_vars, selective_sync>>
    /\ hpc = "clone"
    /\ pending_rows' = <<>>
    /\ hpc' = "done"
    /\ \E clear_success \in BOOLEAN :
        LET cleared == Append(sheet_ops,
                              SheetOp("clear", 0, Len(sheet_rows), clear_success))
            all_values == df_to_values(pending_rows)
        IN IF ~clear_success
           THEN /\ sheet_ops' = cleared /\ hresult' = "false"
                /\ UNCHANGED sheet_rows
           ELSE \E n \in 0..(Len(all_values) + 1) :
                /\ sheet_rows' = SubSeq(all_values, 1, IF n = 0 THEN 0 ELSE n - 1)
                /\ sheet_ops' = Append(cleared,
                       [op |-> "write", at |-> 0, rows |-> Len(all_values),
                        had |-> 0, ok |-> n = Len(all_values) + 1])
                /\ hresult' = IF n = Len(all_values) + 1 THEN "true" ELSE "false"

\* _append_selective_columns with selective sync enabled: on an empty read
\* the header is written and the columns go to row 2, else they go below
\* the rows read
_append_selective_columns ==
    /\ UNCHANGED <<xvars, svars, evars, rvars, rest_vars, selective_sync>>
    /\ hpc = "selective"
    /\ pending_rows' = <<>>
    /\ hpc' = "done"
    /\ \E read \in {"ok", "raise"}, header_success \in BOOLEAN, success \in BOOLEAN :
        LET current_df == get_current_sheet_data(read)
            ops == Append(sheet_ops, SheetOp("read", 0, 0, read = "ok"))
            column_data == df_to_values(pending_rows)
            start_row == Len(current_df) + 2
            at == start_row - 2
            wrote == SheetOp("write_selective", at, Len(column_data), success)
        IN IF current_df = <<>> /\ ~header_success
           THEN /\ sheet_ops' = Append(ops, SheetOp("write", 0, 0, FALSE))
                /\ hresult' = "false"
                /\ UNCHANGED sheet_rows
           ELSE /\ sheet_ops' =
                     IF current_df = <<>>
                     THEN Append(Append(ops, SheetOp("write", 0, 0, TRUE)), wrote)
                     ELSE Append(ops, wrote)
                /\ sheet_rows' = IF success
                                 THEN Overwrite(sheet_rows, at, column_data)
                                 ELSE sheet_rows
                /\ hresult' = IF success THEN "true" ELSE "false"

SheetNext ==
    \/ _sync_incremental_sheet
    \/ _sync_clone_sheet
    \/ _append_selective_columns

SpecSheet == SheetInit /\ [][SheetNext]_vars

(***************************************************************************)
(* RequestController.execute_request with its retry strategy and its rate  *)
(* limiter.  One action is one iteration of "while True": the rate gate,   *)
(* the call of func, and on an exception should_retry, wait and the sleep. *)
(***************************************************************************)
RECURSIVE Pow(_, _)
Pow(base, exp) == IF exp = 0 THEN 1 ELSE base * Pow(base, exp - 1)

\* "if self.config.max_wait_time is not None: delay = min(delay, max_wait_time)"
Clamp(delay) ==
    IF max_wait_time # NoWaitLimit THEN Min(delay, max_wait_time) ELSE delay

\* a faulty backoff: the delay grows by the multiplier per attempt, not by
\* its power
ExponentialBackoffRetry_get_delay_product(a) ==
    Clamp(initial_delay * multiplier * a)

ExponentialBackoffRetry_get_delay(a) ==
    Clamp(initial_delay * Pow(multiplier, a))

LinearGrowthRetry_get_delay(a) == Clamp(initial_delay + increment * a)

FixedWaitRetry_get_delay(a) == initial_delay

get_delay(a) ==
    CASE retry_type = "exponential_backoff" -> ExponentialBackoffRetry_get_delay(a)
      [] retry_type = "linear_growth" -> LinearGrowthRetry_get_delay(a)
      [] retry_type = "fixed_wait" -> FixedWaitRetry_get_delay(a)

\* a faulty budget: one retry too many
should_retry_one_more(a, elapsed_time) ==
    /\ ~(a > max_retries)
    /\ ~(max_wait_time # NoWaitLimit /\ elapsed_time >= max_wait_time)

\* RetryStrategy.should_retry
should_retry(a, elapsed_time) ==
    /\ ~(a >= max_retries)
    /\ ~(max_wait_time # NoWaitLimit /\ elapsed_time >= max_wait_time)

\* RetryStrategy.wait: whether it sleeps (and returns True)
wait(a) == ~(max_wait_time # NoWaitLimit /\ get_delay(a) > max_wait_time)

\* a faulty gate: func is called whatever wait_if_needed returned
InvokesFuncAnyway(limited, gate) == TRUE

\* "if self.rate_limit_strategy: if not wait_if_needed(): raise": func is
\* called unless a configured limiter refused
InvokesFunc(limited, gate) == ~limited \/ gate

RetryTypes == {"none", "exponential_backoff", "linear_growth", "fixed_wait"}

\* the controller as configured, before the first iteration
RetryConfigInit ==
    /\ retry_type \in RetryTypes
    /\ initial_delay \in IF retry_type = "none" THEN {0} ELSE 1..MaxDelay
    /\ max_retries \in IF retry_type = "none" THEN {0} ELSE 0..MaxRetries
    /\ max_wait_time \in IF retry_type = "none" THEN {NoWaitLimit}
                         ELSE {NoWaitLimit} \cup 1..MaxWait
    /\ multiplier \in IF retry_type = "exponential_backoff" THEN {2, 3} ELSE {0}
    /\ increment \in IF retry_type = "linear_growth" THEN {1, 2} ELSE {0}
    /\ rate_limited \in BOOLEAN
    /\ attempt = 0 /\ elapsed = 0 /\ invocations = 0
    /\ last_step = NoStep
    /\ rpc = "loop" /\ rresult = "none"

RetryInit ==
    /\ XferIdle
    /\ SyncIdle
    /\ SheetIdle
    /\ EngineIdle
    /\ RestIdle
    /\ RetryConfigInit

\* one iteration of "while True" of execute_request, given what the rate
\* limiter answers, what func does and how long it takes
execute_request_step(gate, outcome, tick) ==
    /\ UNCHANGED <<retry_type, initial_delay, max_retries, max_wait_time,
                   multiplier, increment, rate_limited>>
    /\ rpc = "loop"
    /\ LET called == InvokesFunc(rate_limited, gate)
            thunk == IF called THEN outcome ELSE "skipped"
            gated == IF ~rate_limited THEN "none"
                     ELSE IF gate THEN "passed" ELSE "refused"
            elapsed_time == elapsed + tick
            retry == retry_type # "none" /\ should_retry(attempt, elapsed_time)
            sleeps == retry /\ wait(attempt)
            this == [gate |-> gated, thunk |-> thunk, should_retry |-> "none",
                     wait |-> "none", delay |-> 0, attempt |-> attempt]
        IN /\ invocations' = IF called THEN invocations + 1 ELSE invocations
           /\ IF thunk = "ok"
              THEN /\ rpc' = "done" /\ rresult' = "returned"
                   /\ last_step' = this
                   /\ UNCHANGED <<attempt, elapsed>>
              ELSE IF ~retry
              THEN /\ rpc' = "done" /\ rresult' = "raised"
                   /\ last_step' = [this EXCEPT !.should_retry = "no"]
                   /\ elapsed' = elapsed_time
                   /\ UNCHANGED attempt
              ELSE IF ~sleeps
              THEN /\ rpc' = "done" /\ rresult' = "raised"
                   /\ last_step' = [this EXCEPT !.should_retry = "yes",
                                                !.wait = "no"]
                   /\ elapsed' = elapsed_time
                   /\ UNCHANGED attempt
              ELSE /\ attempt' = attempt + 1
                   /\ elapsed' = elapsed_time + get_delay(attempt)
                   /\ last_step' = [this EXCEPT !.should_retry = "yes",
                                                !.wait = "yes",
                                                !.delay = get_delay(attempt)]
                   /\ UNCHANGED <<rpc, rresult>>

execute_request ==
    /\ UNCHANGED <<xvars, svars, hvars, evars, rest_vars>>
    /\ \E gate \in BOOLEAN, outcome \in {"ok", "transient", "permanent"},
          tick \in 0..MaxTick :
        execute_request_step(gate, outcome, tick)

RetryNext == execute_request

SpecRetry == RetryInit /\ [][RetryNext]_vars

(***************************************************************************)
(* Properties of the reconciliation.  KeyHash and the remote index are     *)
(* stated here from the rows and the records read, apart from the plans.   *)
(***************************************************************************)
KeyHash(row) == md5(PyStr(row.key))

Keyed(records) == {i \in 1..Len(records) : records[i].key # NoField}

RecordHash(record) == md5(IndexValue(record.key))

\* keys(R)
RemoteKeyHashes(records) == {RecordHash(records[i]) : i \in Keyed(records)}

\* the record_id R stores for a hash: that of the last record listed with it
StoredRecordId(records, hash) ==
    LET with == {i \in Keyed(records) : RecordHash(records[i]) = hash}
    IN records[CHOOSE i \in with : \A j \in with : j <= i].record_id

IsMatchedRow(row) == KeyHash(row) \in RemoteKeyHashes(existing_records)

MatchedRows == SelectSeq(df, IsMatchedRow)

UnmatchedRows == SelectSeq(df, LAMBDA row : ~IsMatchedRow(row))

CallKinds == {calls[i].kind : i \in 1..Len(calls)}

\* a run of the mode has its plan (it did not end on the read)
Planned(mode) ==
    /\ sync_mode = mode /\ runs > 0
    /\ spc \notin {"start", "idle", "off"} /\ sresult # "raised"

\* C5: once a batch of a phase has failed (the processor returned false or
\* raised), no later batch of that phase is sent to the remote.
C5_NoBatchAfterFailedBatch ==
    \A i, j \in 1..Len(calls) :
        (i < j /\ calls[i].kind = calls[j].kind) => calls[i].ok

C8_SecondRunCreatesNothing ==
    (/\ Planned("INCREMENTAL") /\ index_column
     /\ history # <<>> /\ history[Len(history)] = "true") =>
        /\ records_to_create = <<>>
        /\ "create" \notin CallKinds

\* C9: an INCREMENTAL run on a sheet issues no clear over rows the sheet
\* holds and no write that starts within them: apart from reads it only
\* adds below the existing rows.
C9_SheetOnlyAppends ==
    \A i \in 1..Len(sheet_ops) :
        LET o == sheet_ops[i]
        IN /\ o.op = "clear" => o.had = 0
           /\ o.op \in {"write", "write_selective"} => o.at >= o.had

C11_OverwriteWithoutKeyCallsNothing ==
    (sync_mode = "OVERWRITE" /\ ~index_column) =>
        /\ field_calls = <<>>
        /\ calls = <<>>
        /\ existing_records = <<>>

AllRecordIds(records) == [i \in 1..Len(records) |-> records[i].record_id]

AllRows == [i \in 1..Len(df) |-> Fields(df[i], key_field_type)]

\* C12: in CLONE mode the delete list is the record_id of every record
\* read, the create list is all of L, and no update is planned or issued,
\* whether or not rows and records share a KeyHash.
C12_ClonePlan ==
    Planned("CLONE") =>
        /\ record_ids_to_delete = AllRecordIds(existing_records)
        /\ records_to_create = AllRows
        /\ records_to_update = <<>>
        /\ "update" \notin CallKinds

C12_Witness ==
    /\ Planned("CLONE") /\ index_column
    /\ Len(existing_records) = 2 /\ Len(df) = 2
    /\ IsMatchedRow(df[1]) /\ ~IsMatchedRow(df[2])
    /\ existing_records[1].key = NoField
    /\ CallKinds = {"delete", "create"}
    /\ spc = "done" /\ sresult = "true"

NoOpRun ==
    /\ record_ids_to_delete = <<>> /\ records_to_update = <<>>
    /\ records_to_create = <<>>
    /\ calls = <<>>
    /\ spc = "done" /\ sresult = "true"

AllDeleteRun ==
    /\ record_ids_to_delete = AllRecordIds(existing_records)
    /\ records_to_update = <<>> /\ records_to_create = <<>>
    /\ CallKinds \subseteq {"delete"}

\* C13 as stated: with an empty local dataset CLONE and OVERWRITE plan the
\* deletion of every record read and create nothing; FULL and INCREMENTAL
\* plan nothing, issue no call and report success.
C13_EmptyDatasetAllDeleteOrNoOp ==
    df = <<>> =>
        /\ Planned("CLONE") => AllDeleteRun
        /\ (Planned("OVERWRITE") /\ index_column) => AllDeleteRun
        /\ Planned("FULL") => NoOpRun
        /\ Planned("INCREMENTAL") => NoOpRun

\* C13 amended: with an empty local dataset only CLONE plans the deletion of
\* every record read; OVERWRITE (with its key column), like FULL and
\* INCREMENTAL, plans nothing, issues no call and reports success.
C13_EmptyDatasetPlans ==
    df = <<>> =>
        /\ Planned("CLONE") => AllDeleteRun
        /\ (Planned("OVERWRITE") /\ index_column) => NoOpRun
        /\ Planned("FULL") => NoOpRun
        /\ Planned("INCREMENTAL") => NoOpRun

C13_Witness ==
    /\ df = <<>> /\ Planned("OVERWRITE") /\ index_column
    /\ Len(existing_records) = 2 /\ Keyed(existing_records) = {1, 2}
    /\ remote = existing_records
    /\ spc = "done" /\ sresult = "true"

NonNullMatchedRows == SelectSeq(MatchedRows, LAMBDA row : row.key # NULL)

\* C14: with a key column, a row whose key cell is null matches no record:
\* in FULL, INCREMENTAL and OVERWRITE it is on the create list, it is on no
\* update, and the delete list holds only the records of the matched rows
\* whose key is not null.
C14_NullKeyRowIsCreated ==
    ((Planned("FULL") \/ Planned("INCREMENTAL") \/ Planned("OVERWRITE"))
        /\ index_column) =>
        /\ \A i \in 1..Len(df) :
              df[i].key = NULL =>
                  /\ \E j \in 1..Len(records_to_create) : records_to_create[j].n = i
                  /\ \A j \in 1..Len(records_to_update) : records_to_update[j].n # i
        /\ Planned("OVERWRITE") =>
              record_ids_to_delete =
                  [i \in 1..Len(NonNullMatchedRows) |->
                      StoredRecordId(existing_records, KeyHash(NonNullMatchedRows[i]))]

\* C15: the index built from the records read has one record per KeyHash:
\* its keys are the hashes of the records that carry the key field, and
\* each key is mapped to the last record listed with that key value.
C15_RecordIndexLastWins ==
    (runs > 0 /\ index_column /\ spc \notin {"start", "idle", "off"}) =>
        LET R == build_record_index(existing_records, index_column)
        IN /\ DOMAIN R = RemoteKeyHashes(existing_records)
           /\ \A h \in DOMAIN R :
                 /\ R[h].key # NoField
                 /\ RecordHash(R[h]) = h
                 /\ R[h].record_id = StoredRecordId(existing_records, h)
                 /\ \A i \in Keyed(existing_records) :
                       RecordHash(existing_records[i]) = h =>
                           existing_records[i].record_id <= R[h].record_id

C15_Witness ==
    /\ runs > 0 /\ index_column /\ spc = "done"
    /\ Len(existing_records) = 2
    /\ existing_records[1].key = existing_records[2].key
    /\ existing_records[1].key # NoField
    /\ build_record_index(existing_records, index_column)
           [RecordHash(existing_records[1])].record_id = 2

(***************************************************************************)
(* Properties of execute_request.                                          *)
(***************************************************************************)
Executing == rpc \in {"loop", "done"}

HasLimit == max_wait_time # NoWaitLimit

\* what should_retry has to refuse, for every attempt and elapsed time
BudgetRefuses ==
    \A a \in 0..(MaxRetries + 1), e \in 0..(MaxWait + 1) :
        (a >= max_retries \/ (HasLimit /\ e >= max_wait_time)) =>
            ~should_retry(a, e)

\* the parts of C16 that do not depend on the rate limiter
RetryBudget ==
    /\ retry_type # "none" => invocations <= max_retries + 1
    /\ BudgetRefuses
    /\ last_step.should_retry = "no" => (rpc = "done" /\ rresult = "raised")
    /\ last_step.thunk = "ok" => (rpc = "done" /\ rresult = "returned")
    /\ rpc = "done" => (rresult = "returned" <=> last_step.thunk = "ok")

ExpectedDelay(a) ==
    LET Exp[i \in 0..a] == IF i = 0 THEN initial_delay ELSE Exp[i - 1] * multiplier
        Lin[i \in 0..a] == IF i = 0 THEN initial_delay ELSE Lin[i - 1] + increment
        formula == CASE retry_type = "exponential_backoff" -> Exp[a]
                     [] retry_type = "linear_growth" -> Lin[a]
                     [] retry_type = "fixed_wait" -> initial_delay
    IN IF retry_type # "fixed_wait" /\ HasLimit /\ formula > max_wait_time
       THEN max_wait_time ELSE formula

\* C17: get_delay(a) is initial_delay * multiplier^a (exponential) or
\* initial_delay + increment * a (linear), clamped to max_wait_time when one
\* is set, and initial_delay (fixed); every sleep lasts get_delay of its
\* attempt; with initial_delay 0.5 (1 unit), multiplier 2 and max_retries 3
\* the delays are 0.5, 1.0, 2.0 (1, 2, 4 units) and attempt 3 is refused.
C17_DelayFormulas ==
    (Executing /\ retry_type # "none") =>
        /\ \A a \in 0..(MaxRetries + 1) : get_delay(a) = ExpectedDelay(a)
        /\ last_step.wait = "yes" => last_step.delay = ExpectedDelay(last_step.attempt)
        /\ (/\ retry_type = "exponential_backoff" /\ initial_delay = 1
            /\ multiplier = 2 /\ max_retries = 3 /\ ~HasLimit) =>
              /\ <<get_delay(0), get_delay(1), get_delay(2)>> = <<1, 2, 4>>
              /\ \A e \in 0..(MaxWait + 1) : ~should_retry(3, e)

C17_Witness ==
    /\ retry_type = "exponential_backoff" /\ initial_delay = 1
    /\ multiplier = 2 /\ max_retries = 3 /\ ~HasLimit
    /\ attempt = 3 /\ last_step.wait = "yes" /\ last_step.delay = 4
    /\ rpc = "loop" /\ invocations = 3

\* the strategy's formula before any clamping
UnclampedDelay(a) ==
    CASE retry_type = "exponential_backoff" -> initial_delay * Pow(multiplier, a)
      [] retry_type = "linear_growth" -> initial_delay + increment * a
      [] retry_type = "fixed_wait" -> initial_delay

\* C18: when the delay the formula gives for the attempt exceeds
\* max_wait_time, the retry is aborted: wait returns false and the failure
\* is re-raised; there is no sleep and no further attempt.
C18_DelayOverLimitAborts ==
    (/\ Executing /\ retry_type # "none" /\ HasLimit
     /\ last_step.should_retry = "yes"
     /\ UnclampedDelay(last_step.attempt) > max_wait_time) =>
        /\ last_step.wait = "no"
        /\ rpc = "done" /\ rresult = "raised"

\* C19: a permanent error raised by func is re-raised at once: no wait, no
\* advance of the attempt counter, no further call of func.
C19_PermanentErrorPropagates ==
    (Executing /\ last_step.thunk = "permanent") =>
        /\ rpc = "done" /\ rresult = "raised"
        /\ last_step.wait # "yes"
        /\ attempt = last_step.attempt

\* C20: with a rate limiter, every call of func, the first and each retry
\* alike, comes right after a wait_if_needed that returned true in the same
\* iteration, and func is not called in an iteration whose wait_if_needed
\* returned false.
C20_RateGatePrecedesAttempt ==
    (Executing /\ rate_limited /\ last_step # NoStep) =>
        /\ last_step.gate \in {"passed", "refused"}
        /\ last_step.thunk \in {"ok", "transient", "permanent"} <=>
              last_step.gate = "passed"
        /\ last_step.gate = "refused" <=> last_step.thunk = "skipped"
        /\ invocations <= last_step.attempt + 1

C20_Witness ==
    /\ rate_limited /\ rpc = "done" /\ rresult = "returned"
    /\ last_step.attempt = 2 /\ last_step.gate = "passed"
    /\ invocations = 2

(***************************************************************************)
(* The rate limiters of control.py and the RateLimiter of base.py.  One    *)
(* action is one call of wait_if_needed (wait): the caller arrives gap     *)
(* after the previous call returned, time.sleep may oversleep, and two     *)
(* reads of time.time() inside one call may differ.                        *)
(***************************************************************************)
MaxCalls == 4
MaxWindow == 2
MaxRequests == 3

\* time.time() when the limiter is constructed: a multiple of every window
Epoch == 12

\* by how much a sleep may overrun, and a second read of the clock differ
Jitter == {0, 1}

FixedWaitTypes == {"fixed_wait", "legacy"}

\* the caller arrives at once, shortly after, or a whole period later
Gaps ==
    {0, 1, IF limiter_type \in FixedWaitTypes THEN limiter_delay ELSE window_size}

LimiterInit ==
    /\ XferIdle
    /\ SyncIdle
    /\ SheetIdle
    /\ EngineIdle
    /\ RetryIdle
    /\ CallApiIdle
    /\ CancelIdle
    /\ MoreIdle
    /\ limiter_type \in {"fixed_wait", "legacy", "sliding_window", "fixed_window"}
    /\ limiter_delay \in IF limiter_type \in FixedWaitTypes THEN 1..MaxDelay ELSE {0}
    /\ window_size \in IF limiter_type \in FixedWaitTypes THEN {0} ELSE 1..MaxWindow
    /\ max_requests \in IF limiter_type \in FixedWaitTypes THEN {0} ELSE 1..MaxRequests
    /\ now \in IF limiter_type = "fixed_window"
               THEN Epoch..(Epoch + window_size - 1) ELSE {Epoch}
    /\ last_request_time = 0
    /\ request_timestamps = <<>>
    /\ window_start_time = IF limiter_type = "fixed_window" THEN now ELSE 0
    /\ current_window_requests = 0
    /\ admissions = <<>>
    /\ thread_pc = NoThreads /\ thread_local = NoThreads

\* what one call of wait_if_needed did: when it arrived, whether it found
\* the limiter full, what it asked time.sleep for, when it woke, the time
\* the limiter recorded for it and what it returned; returned is "True", "False", or
\* "None" for RateLimiter.wait, which returns nothing
Admission(arrived, full, slept, woke, at, returned) ==
    [arrived |-> arrived, full |-> full, slept |-> slept, woke |-> woke,
     at |-> at, returned |-> returned]

\* a faulty limiter: it sleeps one unit less than the deficit
FixedWaitSleepShort(time_since_last) ==
    IF time_since_last < limiter_delay
    THEN limiter_delay - time_since_last - 1 ELSE 0

\* "if time_since_last < self.delay: time.sleep(self.delay - time_since_last)"
FixedWaitSleep(time_since_last) ==
    IF time_since_last < limiter_delay
    THEN limiter_delay - time_since_last ELSE 0

\* FixedWaitRateLimit.wait_if_needed and RateLimiter.wait
FixedWaitRateLimit_wait_if_needed ==
    /\ limiter_type \in FixedWaitTypes
    /\ Len(admissions) < MaxCalls
    /\ \E gap \in Gaps, over \in Jitter :
        LET current_time == now + gap
            time_since_last == current_time - last_request_time
            sleep_for == FixedWaitSleep(time_since_last)
            woke == IF sleep_for > 0 THEN current_time + sleep_for + over
                    ELSE current_time
        IN /\ last_request_time' = woke
           /\ now' = woke
           /\ admissions' = Append(admissions,
                  Admission(current_time, sleep_for > 0, sleep_for, woke, woke,
                            IF limiter_type = "legacy" THEN "None" ELSE "True"))
    /\ UNCHANGED <<limiter_type, limiter_delay, window_size, max_requests,
                   request_timestamps, window_start_time,
                   current_window_requests, thread_pc, thread_local>>
    /\ UNCHANGED <<xvars, svars, hvars, evars, rvars, avars, kvars, more_vars>>

\* a faulty cleanup: a timestamp on the edge of the window is dropped too
RECURSIVE CleanupDropsEdge(_, _)
CleanupDropsEdge(timestamps, current_time) ==
    IF timestamps # <<>> /\ timestamps[1] <= current_time - window_size + 1
    THEN CleanupDropsEdge(Tail(timestamps), current_time)
    ELSE timestamps

\* SlidingWindowRateLimit._cleanup_old_requests
RECURSIVE _cleanup_old_requests(_, _)
_cleanup_old_requests(timestamps, current_time) ==
    IF timestamps # <<>> /\ timestamps[1] < current_time - window_size
    THEN _cleanup_old_requests(Tail(timestamps), current_time)
    ELSE timestamps

\* a faulty test: a deque that already holds max_requests has room
HasRoomAtLimit(timestamps) == Len(timestamps) <= max_requests

\* "len(self.request_timestamps) < self.config.max_requests"
HasRoom(timestamps) == Len(timestamps) < max_requests

SlidingWindowRateLimit_wait_if_needed ==
    /\ limiter_type = "sliding_window"
    /\ Len(admissions) < MaxCalls
    /\ \E gap \in Gaps, lag \in Jitter, over \in Jitter :
        LET arrived == now + gap
            kept == _cleanup_old_requests(request_timestamps, arrived)
        IN IF HasRoom(kept)
           THEN /\ request_timestamps' = Append(kept, arrived + lag)
                /\ now' = arrived + lag
                /\ admissions' = Append(admissions,
                       Admission(arrived, FALSE, 0, arrived, arrived + lag, "True"))
           ELSE LET oldest_request == kept[1]
                    wait_time == oldest_request + window_size - (arrived + lag)
                    woke == IF wait_time > 0
                            THEN arrived + lag + wait_time + over
                            ELSE arrived + lag
                    again == _cleanup_old_requests(kept, woke)
                    admitted == HasRoom(again)
                IN /\ request_timestamps' =
                          IF admitted THEN Append(again, woke) ELSE again
                   /\ now' = woke
                   /\ admissions' = Append(admissions,
                          Admission(arrived, TRUE, IF wait_time > 0 THEN wait_time ELSE 0,
                                    woke, woke,
                                    IF admitted THEN "True" ELSE "False"))
    /\ UNCHANGED <<limiter_type, limiter_delay, window_size, max_requests,
                   last_request_time, window_start_time,
                   current_window_requests, thread_pc, thread_local>>
    /\ UNCHANGED <<xvars, svars, hvars, evars, rvars, avars, kvars, more_vars>>

\* a faulty window start: the bucket is not aligned to the epoch
WindowStartUnaligned(current_time) == current_time

\* FixedWindowRateLimit._get_current_window_start
_get_current_window_start(current_time) ==
    (current_time \div window_size) * window_size

\* FixedWindowRateLimit._is_new_window
_is_new_window(current_time) ==
    _get_current_window_start(current_time) > window_start_time

FixedWindowRateLimit_wait_if_needed ==
    /\ limiter_type = "fixed_window"
    /\ Len(admissions) < MaxCalls
    /\ \E gap \in Gaps, lag \in Jitter, over \in Jitter :
        LET arrived == now + gap
            fresh == _is_new_window(arrived)
            start == IF fresh THEN _get_current_window_start(arrived)
                     ELSE window_start_time
            count == IF fresh THEN 0 ELSE current_window_requests
        IN IF count < max_requests
           THEN /\ window_start_time' = start
                /\ current_window_requests' = count + 1
                /\ now' = arrived
                /\ admissions' = Append(admissions,
                       Admission(arrived, FALSE, 0, arrived, arrived, "True"))
           ELSE LET next_window_start == start + window_size
                    wait_time == next_window_start - (arrived + lag)
                    woke == IF wait_time > 0
                            THEN arrived + lag + wait_time + over
                            ELSE arrived + lag
                IN /\ window_start_time' = _get_current_window_start(woke)
                   /\ current_window_requests' = 1
                   /\ now' = woke
                   /\ admissions' = Append(admissions,
                          Admission(arrived, TRUE, IF wait_time > 0 THEN wait_time ELSE 0,
                                    woke, woke, "True"))
    /\ UNCHANGED <<limiter_type, limiter_delay, window_size, max_requests,
                   last_request_time, request_timestamps, thread_pc,
                   thread_local>>
    /\ UNCHANGED <<xvars, svars, hvars, evars, rvars, avars, kvars, more_vars>>

LimiterNext ==
    \/ FixedWaitRateLimit_wait_if_needed
    \/ SlidingWindowRateLimit_wait_if_needed
    \/ FixedWindowRateLimit_wait_if_needed

SpecLimiter == LimiterInit /\ [][LimiterNext]_vars

(***************************************************************************)
(* Two threads that share one window limiter.  The limiters take no lock,  *)
(* so a thread switch may fall between the test of the limit and the       *)
(* update that follows it, and between the read and the write of           *)
(* "current_window_requests += 1".  One action is one such step.           *)
(***************************************************************************)
MaxThreadTime == 2

Threads == 1..2

\* what a thread inside wait_if_needed holds: when it arrived, whether it
\* found the limiter full, when its sleep ends, the counter it has loaded
Local(arrived, full, wake, loaded) ==
    [arrived |-> arrived, full |-> full, wake |-> wake, loaded |-> loaded]

ThreadsInit ==
    /\ XferIdle
    /\ SyncIdle
    /\ SheetIdle
    /\ EngineIdle
    /\ RetryIdle
    /\ CallApiIdle
    /\ CancelIdle
    /\ MoreIdle
    /\ limiter_type \in {"sliding_window", "fixed_window"}
    /\ limiter_delay = 0
    /\ window_size \in 1..MaxWindow
    /\ max_requests \in 1..MaxRequests
    /\ now = Epoch
    /\ last_request_time = 0
    /\ request_timestamps = <<>>
    /\ window_start_time = IF limiter_type = "fixed_window" THEN now ELSE 0
    /\ current_window_requests = 0
    /\ admissions = <<>>
    /\ thread_pc = [t \in Threads |-> "call"]
    /\ thread_local = [t \in Threads |-> Local(0, FALSE, 0, 0)]

\* the calls that have begun
CallsBegun ==
    Len(admissions) + Cardinality({t \in Threads : thread_pc[t] # "call"})

ThreadFrame ==
    /\ UNCHANGED <<limiter_type, limiter_delay, window_size, max_requests,
                   last_request_time>>
    /\ UNCHANGED <<xvars, svars, hvars, evars, rvars, avars, kvars, more_vars>>

\* "self._cleanup_old_requests(); if len(self.request_timestamps) <
\* self.config.max_requests:", and on the other branch the sleep
sliding_window_test(t) ==
    /\ limiter_type = "sliding_window"
    /\ thread_pc[t] = "call"
    /\ CallsBegun < MaxCalls
    /\ LET kept == _cleanup_old_requests(request_timestamps, now)
       IN /\ request_timestamps' = kept
          /\ IF Len(kept) < max_requests
             THEN /\ thread_pc' = [thread_pc EXCEPT ![t] = "append"]
                  /\ thread_local' = [thread_local EXCEPT
                                        ![t] = Local(now, FALSE, now, 0)]
             ELSE /\ thread_pc' = [thread_pc EXCEPT ![t] = "sleep"]
                  /\ thread_local' = [thread_local EXCEPT
                         ![t] = Local(now, TRUE, kept[1] + window_size, 0)]
    /\ UNCHANGED <<now, window_start_time, current_window_requests, admissions>>
    /\ ThreadFrame

\* "self.request_timestamps.append(time.time()); return True"
sliding_window_append(t) ==
    /\ limiter_type = "sliding_window"
    /\ thread_pc[t] = "append"
    /\ request_timestamps' = Append(request_timestamps, now)
    /\ admissions' = Append(admissions,
           Admission(thread_local[t].arrived, thread_local[t].full,
                     thread_local[t].wake - thread_local[t].arrived,
                     now, now, "True"))
    /\ thread_pc' = [thread_pc EXCEPT ![t] = "call"]
    /\ UNCHANGED <<now, window_start_time, current_window_requests, thread_local>>
    /\ ThreadFrame

\* the end of time.sleep(wait_time) and the second test
sliding_window_wake(t) ==
    /\ limiter_type = "sliding_window"
    /\ thread_pc[t] = "sleep"
    /\ now >= thread_local[t].wake
    /\ LET kept == _cleanup_old_requests(request_timestamps, now)
       IN /\ request_timestamps' = kept
          /\ IF Len(kept) < max_requests
             THEN /\ thread_pc' = [thread_pc EXCEPT ![t] = "append"]
                  /\ UNCHANGED admissions
             ELSE /\ thread_pc' = [thread_pc EXCEPT ![t] = "call"]
                  /\ admissions' = Append(admissions,
                         Admission(thread_local[t].arrived, TRUE,
                                   thread_local[t].wake - thread_local[t].arrived,
                                   now, now, "False"))
    /\ UNCHANGED <<now, window_start_time, current_window_requests, thread_local>>
    /\ ThreadFrame

\* "if self._is_new_window(): ...; if self.current_window_requests <
\* self.config.max_requests:", and on the other branch the sleep
fixed_window_test(t) ==
    /\ limiter_type = "fixed_window"
    /\ thread_pc[t] = "call"
    /\ CallsBegun < MaxCalls
    /\ LET fresh == _is_new_window(now)
           start == IF fresh THEN _get_current_window_start(now)
                    ELSE window_start_time
           count == IF fresh THEN 0 ELSE current_window_requests
       IN /\ window_start_time' = start
          /\ current_window_requests' = count
          /\ IF count < max_requests
             THEN /\ thread_pc' = [thread_pc EXCEPT ![t] = "load"]
                  /\ thread_local' = [thread_local EXCEPT
                                        ![t] = Local(now, FALSE, now, 0)]
             ELSE /\ thread_pc' = [thread_pc EXCEPT ![t] = "sleep"]
                  /\ thread_local' = [thread_local EXCEPT
                         ![t] = Local(now, TRUE, start + window_size, 0)]
    /\ UNCHANGED <<now, request_timestamps, admissions>>
    /\ ThreadFrame

\* the read of "self.current_window_requests += 1"
fixed_window_load(t) ==
    /\ limiter_type = "fixed_window"
    /\ thread_pc[t] = "load"
    /\ thread_local' = [thread_local EXCEPT
                          ![t].loaded = current_window_requests]
    /\ thread_pc' = [thread_pc EXCEPT ![t] = "store"]
    /\ UNCHANGED <<now, request_timestamps, window_start_time,
                   current_window_requests, admissions>>
    /\ ThreadFrame

\* the write of "self.current_window_requests += 1", and "return True"
fixed_window_store(t) ==
    /\ limiter_type = "fixed_window"
    /\ thread_pc[t] = "store"
    /\ current_window_requests' = thread_local[t].loaded + 1
    /\ admissions' = Append(admissions,
           Admission(thread_local[t].arrived, FALSE, 0, now, now, "True"))
    /\ thread_pc' = [thread_pc EXCEPT ![t] = "call"]
    /\ UNCHANGED <<now, request_timestamps, window_start_time, thread_local>>
    /\ ThreadFrame

\* the end of time.sleep(wait_time): "self.window_start_time = ...;
\* self.current_window_requests = 1; return True"
fixed_window_wake(t) ==
    /\ limiter_type = "fixed_window"
    /\ thread_pc[t] = "sleep"
    /\ now >= thread_local[t].wake
    /\ window_start_time' = _get_current_window_start(now)
    /\ current_window_requests' = 1
    /\ admissions' = Append(admissions,
           Admission(thread_local[t].arrived, TRUE,
                     thread_local[t].wake - thread_local[t].arrived,
                     now, now, "True"))
    /\ thread_pc' = [thread_pc EXCEPT ![t] = "call"]
    /\ UNCHANGED <<now, request_timestamps, thread_local>>
    /\ ThreadFrame

\* time passes
clock_tick ==
    /\ thread_pc # NoThreads
    /\ now < Epoch + window_size + MaxThreadTime
    /\ now' = now + 1
    /\ UNCHANGED <<request_timestamps, window_start_time,
                   current_window_requests, admissions, thread_pc, thread_local>>
    /\ ThreadFrame

ThreadsNext ==
    \/ \E t \in Threads : sliding_window_test(t)
    \/ \E t \in Threads : sliding_window_append(t)
    \/ \E t \in Threads : sliding_window_wake(t)
    \/ \E t \in Threads : fixed_window_test(t)
    \/ \E t \in Threads : fixed_window_load(t)
    \/ \E t \in Threads : fixed_window_store(t)
    \/ \E t \in Threads : fixed_window_wake(t)
    \/ clock_tick

SpecThreads == ThreadsInit /\ [][ThreadsNext]_vars

(***************************************************************************)
(* A FULL run on a sheet (_sync_full_sheet) without selective sync: the    *)
(* rows whose key the sheet holds are written over it by write_sheet_data, *)
(* then the other rows are appended, if the write succeeded.               *)
(***************************************************************************)
SheetFullInit ==
    /\ XferIdle
    /\ EngineIdle
    /\ RestIdle
    /\ RetryIdle
    /\ \E ks \in SeqsUpTo(LocalKeys, MaxLocal) :
          df = [i \in 1..Len(ks) |-> [key |-> ks[i], n |-> i]]
    /\ index_column \in BOOLEAN
    /\ key_field_type = "none" /\ batch_size = 0 /\ remote = <<>>
    /\ next_id = 0 /\ sync_mode = "FULL"
    /\ records_to_update = <<>> /\ records_to_create = <<>>
    /\ record_ids_to_delete = <<>> /\ phase_ok = <<>> /\ batch_i = 0
    /\ success_count = 0 /\ calls = <<>> /\ runs = 0 /\ spc = "off"
    /\ history = <<>> /\ existing_records = <<>> /\ sresult = "none"
    /\ sheet_rows \in SeqsUpTo(SheetKeys, MaxRemote)
    /\ selective_sync = FALSE
    /\ sheet_ops = <<>> /\ pending_rows = <<>>
    /\ hpc = "full" /\ hresult = "none"

\* the rows of df whose index hash is in the index of the sheet
UpdateRows(rows, current_index) ==
    SelectIdx(rows, LAMBDA row : md5(PyStr(row.key)) \in current_index)

_sync_full_sheet ==
    /\ UNCHANGED <<xvars, evars, rvars, rest_vars, selective_sync>>
    /\ UNCHANGED <<df, index_column, key_field_type, batch_size, remote,
                   next_id, sync_mode, record_ids_to_delete, phase_ok, batch_i,
                   success_count, calls, runs, history, existing_records, spc,
                   sresult>>
    /\ hpc = "full"
    /\ IF ~index_column
       THEN HandOver(sheet_ops, "clone", df)
            /\ UNCHANGED <<records_to_update, records_to_create>>
       ELSE \E read \in {"ok", "raise"} :
            LET current_df == get_current_sheet_data(read)
                ops == Append(sheet_ops, SheetOp("read", 0, 0, read = "ok"))
                current_index == build_data_index(current_df)
                update_rows == UpdateRows(df, current_index)
                new_rows == NewRows(df, current_index)
            IN IF current_df = <<>>
               THEN HandOver(ops, "clone", df)
                    /\ UNCHANGED <<records_to_update, records_to_create>>
               ELSE \E write_success \in BOOLEAN, n \in 0..Len(new_rows) :
                    LET wrote == IF update_rows # <<>>
                                 THEN Append(ops, SheetOp("write", 0,
                                          Len(current_df), write_success))
                                 ELSE ops
                        success == update_rows = <<>> \/ write_success
                        appends == new_rows # <<>> /\ success
                    IN /\ records_to_update' = update_rows
                       /\ records_to_create' = new_rows
                       /\ pending_rows' = <<>>
                       /\ hpc' = "done"
                       /\ sheet_ops' =
                             IF appends
                             THEN Append(wrote, SheetOp("append", Len(sheet_rows),
                                             Len(new_rows), n = Len(new_rows)))
                             ELSE wrote
                       /\ sheet_rows' =
                             IF appends
                             THEN sheet_rows \o SubSeq(df_to_values(new_rows), 1, n)
                             ELSE sheet_rows
                       /\ hresult' = IF success /\ (~appends \/ n = Len(new_rows))
                                     THEN "true" ELSE "false"

\* FULL mode on either target
FullInit == SyncInit \/ SheetFullInit

FullNext ==
    \/ sync_full
    \/ process_in_batches
    \/ _sync_full_sheet
    \/ _sync_clone_sheet

SpecFull == FullInit /\ [][FullNext]_vars

(***************************************************************************)
(* A FULL run on a bitable with a larger plan: the remote holds a record   *)
(* for each of the first rows of the DataFrame and none for the others, so *)
(* that sync_full plans that many updates and creates.                     *)
(***************************************************************************)
MaxUpdates == 4
MaxCreates == 6
MinBatchSize == 3
MaxBatchSize == 5

\* the key cells of the rows, all different
KeyNames == <<"k01", "k02", "k03", "k04", "k05", "k06", "k07", "k08", "k09",
              "k10", "k11", "k12", "k13", "k14">>

BatchesInit ==
    /\ XferIdle
    /\ SheetIdle
    /\ EngineIdle
    /\ RestIdle
    /\ RetryIdle
    /\ \E updates \in 0..MaxUpdates, creates \in 0..MaxCreates :
        /\ df = [i \in 1..(updates + creates) |->
                    [key |-> Text(KeyNames[i]), n |-> i]]
        /\ remote = [i \in 1..updates |->
                        [record_id |-> i, key |-> Text(KeyNames[i]), n |-> 0]]
    /\ next_id = Len(remote) + 1
    /\ index_column = TRUE
    /\ key_field_type = "text"
    /\ batch_size \in MinBatchSize..MaxBatchSize
    /\ sync_mode = "none"
    /\ records_to_update = <<>> /\ records_to_create = <<>>
    /\ record_ids_to_delete = <<>>
    /\ phase_ok = [delete |-> TRUE, update |-> TRUE, create |-> TRUE]
    /\ batch_i = 0 /\ success_count = 0 /\ calls = <<>> /\ runs = 0
    /\ history = <<>> /\ existing_records = <<>>
    /\ spc = "idle" /\ sresult = "none"

BatchesNext ==
    \/ sync_full
    \/ process_in_batches

SpecBatches == BatchesInit /\ [][BatchesNext]_vars

(***************************************************************************)
(* call_api of the API clients.  With a controller it hands _make_request, *)
(* which raises on 429 and on 5xx, to execute_request; without one         *)
(* RetryableAPIClient runs its own loop (_call_api_legacy of base.py,      *)
(* call_api of lite/XTF_Bitable.py).  One action is one attempt.           *)
(***************************************************************************)
StatusCodes == {200, 404, 429, 500, 503}

\* _make_request: requests.request raised, or the status is 429 or 5xx
_make_request(status, raises) ==
    IF raises \/ status = 429 \/ status >= 500 THEN "transient" ELSE "ok"

CallApiInit ==
    /\ XferIdle
    /\ SyncIdle
    /\ SheetIdle
    /\ EngineIdle
    /\ LimiterIdle
    /\ CancelIdle
    /\ MoreIdle
    /\ api_path \in {"controller", "legacy"}
    /\ api_attempt = 0 /\ status_code = 0 /\ api_result = "none"
    /\ IF api_path = "controller"
       THEN RetryConfigInit
       ELSE /\ retry_type = "none" /\ initial_delay = 0
            /\ max_retries \in 0..MaxRetries
            /\ max_wait_time = NoWaitLimit /\ multiplier = 0 /\ increment = 0
            /\ rate_limited = TRUE /\ attempt = 0 /\ elapsed = 0
            /\ invocations = 0 /\ last_step = NoStep
            /\ rpc = "off" /\ rresult = "none"

\* EnhancedAPIClient.call_api (RetryableAPIClient.call_api) with a controller
call_api ==
    /\ UNCHANGED <<xvars, svars, hvars, evars, lvars, kvars, more_vars>>
    /\ api_path = "controller"
    /\ \E status \in StatusCodes, raises \in BOOLEAN, gate \in BOOLEAN,
          tick \in 0..MaxTick :
        /\ execute_request_step(gate, _make_request(status, raises), tick)
        /\ status_code' = IF ~InvokesFunc(rate_limited, gate) THEN status_code
                          ELSE IF raises THEN 0 ELSE status
        /\ api_result' = rresult'
        /\ api_attempt' = attempt'
    /\ UNCHANGED api_path

\* one iteration of "for attempt in range(self.max_retries + 1)"
_call_api_legacy ==
    /\ UNCHANGED <<xvars, svars, hvars, evars, lvars, kvars, more_vars>>
    /\ UNCHANGED <<retry_type, initial_delay, max_retries, max_wait_time,
                   multiplier, increment, rate_limited, attempt, last_step,
                   rpc, rresult>>
    /\ api_path = "legacy"
    /\ api_result = "none"
    /\ api_attempt <= max_retries
    /\ \E status \in StatusCodes, raises \in BOOLEAN :
        LET retries == /\ api_attempt < max_retries
                       /\ raises \/ status = 429 \/ status >= 500
            wait_time == 2 * Pow(2, api_attempt)
        IN /\ invocations' = invocations + 1
           /\ status_code' = IF raises THEN 0 ELSE status
           /\ IF retries
              THEN /\ api_attempt' = api_attempt + 1
                   /\ elapsed' = elapsed + wait_time
                   /\ UNCHANGED api_result
              ELSE /\ api_result' = IF raises THEN "raised" ELSE "returned"
                   /\ UNCHANGED <<api_attempt, elapsed>>
    /\ UNCHANGED api_path

CallApiNext ==
    \/ call_api
    \/ _call_api_legacy

SpecCallApi == CallApiInit /\ [][CallApiNext]_vars

(***************************************************************************)
(* A run whose caller asks for cancellation.  The transfer loops and       *)
(* execute_request take no token and test none: no action of the code      *)
(* reads cancel_requested.                                                 *)
(***************************************************************************)
CancelInit == XferInit \/ RetryInit

\* the caller asks for the run to be cancelled while it is under way
request_cancel ==
    /\ xpc \in {"start", "loop"} \/ rpc = "loop"
    /\ ~cancel_requested
    /\ cancel_requested' = TRUE
    /\ UNCHANGED <<xvars, svars, hvars, evars, rvars, lvars, avars, more_vars>>

CancelNext ==
    \/ XferNext
    \/ RetryNext
    \/ request_cancel

SpecCancel == CancelInit /\ [][CancelNext]_vars

(***************************************************************************)
(* Properties of the rate limiters.                                        *)
(***************************************************************************)
\* the calls that were admitted with a recorded time in [lo, hi]
AdmittedIn(lo, hi) ==
    {i \in DOMAIN admissions :
        /\ admissions[i].returned = "True"
        /\ lo <= admissions[i].at /\ admissions[i].at <= hi}

\* the first three calls were admitted at the very start
ThreeAtStart ==
    /\ Len(admissions) >= 3
    /\ \A i \in 1..3 : admissions[i].returned = "True" /\ admissions[i].at = Epoch

\* C21: under sequential use no window of window_size ending at any time t
\* holds more than max_requests admissions of the sliding window limiter;
\* with a window of 1.0 s (2 units) and max_requests = 3, three calls at
\* the start are admitted without sleeping and a 4th arriving then sleeps
\* until at least 1.0 s after the 1st
C21_SlidingWindowBound ==
    limiter_type = "sliding_window" =>
        /\ \A t \in Epoch..now :
              Cardinality(AdmittedIn(t - window_size, t)) <= max_requests
        /\ (window_size = 2 /\ max_requests = 3 /\ ThreeAtStart) =>
              /\ \A i \in 1..3 : admissions[i].slept = 0
              /\ (Len(admissions) >= 4 /\ admissions[4].arrived = Epoch) =>
                    /\ admissions[4].slept > 0
                    /\ admissions[4].woke >= admissions[1].at + 2

C21_Witness ==
    /\ limiter_type = "sliding_window" /\ window_size = 2 /\ max_requests = 3
    /\ ThreeAtStart
    /\ Len(admissions) = 4 /\ admissions[4].arrived = Epoch
    /\ admissions[4].slept = 2 /\ admissions[4].returned = "True"

\* C22: every call of wait_if_needed of the three limiters returns true,
\* never false, also when a sliding window caller slept exactly until the
\* oldest timestamp plus window_size
C22_WaitIfNeededNeverFalse ==
    \A i \in DOMAIN admissions : admissions[i].returned # "False"

\* the bucket [k*W, (k+1)*W) a time lies in
Bucket(t) == t \div window_size

\* C23: the fixed window limiter admits at most max_requests calls per
\* epoch-aligned bucket; a call that found the bucket exhausted wakes no
\* earlier than the next bucket boundary and leaves the counter at 1 and
\* window_start_time at the aligned start of the bucket it woke in
C23_FixedWindowAdmission ==
    limiter_type = "fixed_window" =>
        /\ \A k \in Bucket(Epoch)..Bucket(now) :
              Cardinality(AdmittedIn(k * window_size,
                                     (k + 1) * window_size - 1)) <= max_requests
        /\ (admissions # <<>> /\ admissions[Len(admissions)].full) =>
              LET last == admissions[Len(admissions)]
              IN /\ last.woke >= (Bucket(last.arrived) + 1) * window_size
                 /\ last.returned = "True"
                 /\ current_window_requests = 1
                 /\ window_start_time = Bucket(last.at) * window_size

C23_Witness ==
    /\ limiter_type = "fixed_window" /\ window_size = 2 /\ max_requests = 2
    /\ Len(admissions) = 3
    /\ admissions[3].full /\ admissions[3].slept > 0
    /\ admissions[3].at > window_start_time
    /\ current_window_requests = 1

\* C24: two consecutive admissions of the fixed wait limiter (and of the
\* legacy RateLimiter) are at least delay apart, and a call that arrives
\* sooner sleeps exactly the deficit
C24_FixedWaitSpacing ==
    limiter_type \in FixedWaitTypes =>
        \A i \in 2..Len(admissions) :
            LET since == admissions[i].arrived - admissions[i - 1].at
            IN /\ admissions[i].at - admissions[i - 1].at >= limiter_delay
               /\ since < limiter_delay =>
                     admissions[i].slept = limiter_delay - since
               /\ since >= limiter_delay => admissions[i].slept = 0

C24_Witness ==
    /\ limiter_type = "legacy" /\ limiter_delay = 2
    /\ Len(admissions) = 2
    /\ admissions[2].arrived = admissions[1].at + 1
    /\ admissions[2].slept = 1

\* the admissions whose timestamp the sliding window has not yet dropped
Recorded(stamp) ==
    Cardinality({i \in DOMAIN request_timestamps : request_timestamps[i] = stamp})

\* C25: when two threads share one sliding window (or fixed window)
\* limiter, in any interleaving no window (bucket) holds more than
\* max_requests admissions, and no admitted call's record is lost: the
\* deque holds a timestamp for every admission still in the window and the
\* counter counts every admission of the current bucket
C25_SafeUnderTwoThreads ==
    /\ limiter_type = "sliding_window" =>
          /\ \A t \in Epoch..now :
                Cardinality(AdmittedIn(t - window_size, t)) <= max_requests
          /\ \A t \in (now - window_size)..now :
                Recorded(t) >= Cardinality(AdmittedIn(t, t))
    /\ limiter_type = "fixed_window" =>
          /\ \A k \in Bucket(Epoch)..Bucket(now) :
                Cardinality(AdmittedIn(k * window_size,
                                       (k + 1) * window_size - 1)) <= max_requests
          /\ (window_start_time = Bucket(now) * window_size
                /\ \A t \in Threads : thread_pc[t] = "call") =>
                current_window_requests >=
                    Cardinality(AdmittedIn(window_start_time, now))

(***************************************************************************)
(* Properties of the phases and of the batches.                            *)
(***************************************************************************)
\* the calls of one kind, in the order sent
KindCalls(kind) == SelectSeq(calls, LAMBDA c : c.kind = kind)

\* every batch of items has a call of the kind that the remote accepted
BatchesAccepted(kind, items) ==
    \A k \in 0..((Len(items) - 1) \div batch_size) :
        \E i \in 1..Len(calls) :
            /\ calls[i].kind = kind /\ calls[i].ok
            /\ calls[i].offset = k * batch_size
            /\ calls[i].batch = SubSeq(items, k * batch_size + 1,
                                       Min((k + 1) * batch_size, Len(items)))

SheetOpAccepted(name) ==
    \E i \in 1..Len(sheet_ops) : sheet_ops[i].op = name /\ sheet_ops[i].ok

\* a FULL run on a sheet that took the update and append path to its end
SheetFullDone ==
    /\ sync_mode = "FULL" /\ hpc = "done"
    /\ \A i \in 1..Len(sheet_ops) : sheet_ops[i].op # "clear"

\* C26: in FULL mode every update call comes before any create call, and
\* the run returns true exactly when every update batch and every create
\* batch of the plan was accepted; on a sheet the one write comes before
\* the one append and the result is true exactly when each required one
\* was accepted
C26_FullPhases ==
    /\ Planned("FULL") =>
          /\ \A i, j \in 1..Len(calls) :
                i < j => ~(calls[i].kind = "create" /\ calls[j].kind = "update")
          /\ "delete" \notin CallKinds
          /\ spc = "done" =>
                (sresult = "true" <=>
                    /\ BatchesAccepted("update", records_to_update)
                    /\ BatchesAccepted("create", records_to_create))
    /\ SheetFullDone =>
          /\ \A i, j \in 1..Len(sheet_ops) :
                i < j => ~(sheet_ops[i].op = "append" /\ sheet_ops[j].op = "write")
          /\ hresult = "true" <=>
                /\ records_to_update # <<>> => SheetOpAccepted("write")
                /\ records_to_create # <<>> => SheetOpAccepted("append")

C26_Witness ==
    /\ Planned("FULL") /\ spc = "done" /\ sresult = "false"
    /\ Len(calls) = 2
    /\ calls[1].kind = "update" /\ ~calls[1].ok
    /\ calls[2].kind = "create" /\ calls[2].ok

\* C27: the calls of a phase are the consecutive batches of its list: the
\* j-th call has offset (j - 1) * batch_size and holds the at most
\* batch_size items from there on; a finished phase has sent
\* ceil(len / batch_size) calls whose batches concatenate to the list; the
\* run is true only if every batch succeeded; 4 updates and 6 creates with
\* batch_size 5 (400 and 600 with 500) give 1 update call, then 2 create
\* calls
C27_BatchPartition ==
    Planned("FULL") =>
        /\ \A kind \in {"update", "create"} :
            LET items == IF kind = "update" THEN records_to_update
                         ELSE records_to_create
                sent_calls == KindCalls(kind)
                finished == spc = "done" \/ (kind = "update" /\ spc = "create")
            IN /\ \A j \in 1..Len(sent_calls) :
                    /\ sent_calls[j].offset = (j - 1) * batch_size
                    /\ Len(sent_calls[j].batch) >= 1
                    /\ Len(sent_calls[j].batch) <= batch_size
                    /\ sent_calls[j].batch =
                          SubSeq(items, (j - 1) * batch_size + 1,
                                 Min(j * batch_size, Len(items)))
               /\ finished =>
                    /\ Len(sent_calls) =
                          (Len(items) + batch_size - 1) \div batch_size
                    /\ Concat([j \in 1..Len(sent_calls) |-> sent_calls[j].batch])
                          = items
        /\ (spc = "done" /\ sresult = "true") =>
              \A i \in 1..Len(calls) : calls[i].ok
        /\ (/\ spc = "done" /\ batch_size = 5
            /\ Len(records_to_update) = 4 /\ Len(records_to_create) = 6) =>
              [i \in 1..Len(calls) |-> calls[i].kind] =
                  <<"update", "create", "create">>

C27_Witness ==
    /\ Planned("FULL") /\ spc = "done" /\ sresult = "true" /\ batch_size = 5
    /\ Len(records_to_update) = 4 /\ Len(records_to_create) = 6
    /\ Len(calls) = 3
    /\ calls[3].kind = "create" /\ calls[3].offset = 5 /\ Len(calls[3].batch) = 1

\* the rows and the columns of values that a chunk's ranges name
ChunkRows(chunk) == (chunk.start_row - StartRow + 1)..(chunk.end_row - StartRow + 1)
ChunkCols(chunk) ==
    (chunk.start_col - StartColNum + 1)..(chunk.end_col - StartColNum + 1)

\* C28: the initial chunks of a non-empty grid partition it: every cell is
\* in the ranges of exactly one chunk; a chunk has at most row_batch_size
\* rows and at most col_batch_size columns; its ranges are its offsets in
\* the grid shifted by the start row and start column, and its data are
\* the cells there; append_sheet_data cuts by rows only
C28_InitialChunking ==
    data_chunks # <<>> =>
        LET total_cols == Len(values[1])
            col_limit == IF op = "write" THEN col_batch_size ELSE total_cols
        IN /\ \A r \in 1..Len(values), c \in 1..total_cols :
                Cardinality({k \in 1..Len(data_chunks) :
                                /\ r \in ChunkRows(data_chunks[k])
                                /\ c \in ChunkCols(data_chunks[k])}) = 1
           /\ \A k \in 1..Len(data_chunks) :
                LET chunk == data_chunks[k]
                IN /\ Len(chunk.data) >= 1
                   /\ Len(chunk.data) <= row_batch_size
                   /\ chunk.end_row = chunk.start_row + Len(chunk.data) - 1
                   /\ chunk.start_row >= StartRow
                   /\ chunk.start_col >= StartColNum
                   /\ \A i \in 1..Len(chunk.data) :
                        /\ Len(chunk.data[i]) >= 1
                        /\ Len(chunk.data[i]) <= col_limit
                        /\ Len(chunk.data[i]) = chunk.end_col - chunk.start_col + 1
                        /\ \A j \in 1..Len(chunk.data[i]) :
                             chunk.data[i][j] =
                                 values[chunk.start_row - StartRow + i]
                                       [chunk.start_col - StartColNum + j]
                   /\ op = "append" =>
                        /\ chunk.start_col = StartColNum
                        /\ chunk.end_col = StartColNum + total_cols - 1

C28_Witness ==
    /\ op = "write" /\ Len(values) = 4 /\ Len(values[1]) = 2
    /\ row_batch_size = 3 /\ col_batch_size = 1
    /\ Len(data_chunks) = 4
    /\ data_chunks[2].start_row = StartRow + 3
    /\ data_chunks[3].start_col = StartColNum + 1

\* C29: call_api never returns a response whose status is 429 or 5xx: when
\* the last permitted attempt still yields one, it raises, on the controller
\* path and on the legacy path
C29_ExhaustedRetriesRaise ==
    api_result = "returned" => (status_code # 429 /\ status_code < 500)

\* C30: once cancellation has been requested no further chunk is sent, and
\* the retry loop makes no further attempt and waits out no backoff
C30_CancellationObserved ==
    [][cancel_requested =>
          /\ sent' = sent
          /\ invocations' = invocations
          /\ attempt' = attempt
          /\ elapsed' = elapsed]_vars

(***************************************************************************)
(* Further properties of the transfer, the retry controller and the plans. *)
(***************************************************************************)
\* the row range of a chunk is as long as its data
RangeFitsData(chunk) == chunk.end_row - chunk.start_row + 1 = Len(chunk.data)

\* first and second are the halves of parent at mid = n // 2
HalvesOf(parent, first, second) ==
    LET n == Len(parent.data)
        mid == n \div 2
    IN /\ first.data = SubSeq(parent.data, 1, mid)
       /\ second.data = SubSeq(parent.data, mid + 1, n)
       /\ first.start_row = parent.start_row
       /\ first.end_row + 1 = second.start_row
       /\ second.end_row = parent.end_row
       /\ first.start_col = parent.start_col /\ first.end_col = parent.end_col
       /\ second.start_col = parent.start_col /\ second.end_col = parent.end_col

\* the request was refused as too large and its chunk could be split
WasSplit(e) == e.kind = "write" /\ e.resp = "too_large" /\ Len(e.chunk.data) >= 2

\* C31: every chunk on the work stack, and every chunk popped from it, has
\* end_row - start_row + 1 rows of data; right after a split the two halves
\* are on top of the stack, the first half above the second, with adjacent
\* disjoint row ranges that make up the parent's and with the parent's
\* columns; and the request after a split one is the first half
C31_BisectionMetadata ==
    /\ \A j \in 1..Len(chunk_stack) : RangeFitsData(chunk_stack[j])
    /\ \A i \in 1..Len(sent) : sent[i].kind = "write" => RangeFitsData(sent[i].chunk)
    /\ \A i \in 1..Len(sent) :
          WasSplit(sent[i]) =>
              /\ i = Len(sent) =>
                    /\ Len(chunk_stack) >= 2
                    /\ HalvesOf(sent[i].chunk, chunk_stack[Len(chunk_stack)],
                                chunk_stack[Len(chunk_stack) - 1])
              /\ i < Len(sent) =>
                    /\ sent[i + 1].chunk.data =
                          SubSeq(sent[i].chunk.data, 1, Len(sent[i].chunk.data) \div 2)
                    /\ sent[i + 1].chunk.start_row = sent[i].chunk.start_row

C31_Witness ==
    /\ Len(sent) >= 2
    /\ WasSplit(sent[Len(sent) - 1]) /\ Len(sent[Len(sent) - 1].chunk.data) = 3
    /\ sent[Len(sent)].resp = "ok" /\ Len(sent[Len(sent)].chunk.data) = 1
    /\ chunk_stack # <<>>
    /\ Len(Top(chunk_stack).data) = 2
    /\ Top(chunk_stack).start_row = sent[Len(sent)].chunk.end_row + 1

(***************************************************************************)
(* Several calls of execute_request through one RequestController, one     *)
(* after the other.  attempt and start_time are locals of the call.        *)
(***************************************************************************)
MaxHistory == 2

\* a faulty entry: the attempt counter of the earlier call is kept
EntryKeepsAttempt(previous) == [attempt |-> previous, elapsed |-> 0]

\* "attempt = 0; start_time = time.time()" at the entry of execute_request
Entry(previous) == [attempt |-> 0, elapsed |-> 0]

CallsInit == RetryInit

\* one iteration of "while True" of the current call
execute_request_iteration ==
    /\ UNCHANGED <<xvars, svars, hvars, evars, lvars, avars, kvars, pvars,
                   wvars, gvars, qvars, request_calls>>
    /\ call_iterations' = call_iterations + 1
    /\ \E gate \in BOOLEAN, outcome \in {"ok", "transient", "permanent"},
          tick \in 0..MaxTick :
        execute_request_step(gate, outcome, tick)

\* the next call of execute_request on the same controller, after the
\* earlier one returned or raised
execute_request_entry ==
    /\ UNCHANGED <<xvars, svars, hvars, evars, lvars, avars, kvars, pvars,
                   wvars, gvars, qvars>>
    /\ UNCHANGED <<retry_type, initial_delay, max_retries, max_wait_time,
                   multiplier, increment, rate_limited>>
    /\ rpc = "done"
    /\ Len(request_calls) < MaxHistory
    /\ request_calls' = Append(request_calls, rresult)
    /\ call_iterations' = 0
    /\ attempt' = Entry(attempt).attempt
    /\ elapsed' = Entry(attempt).elapsed
    /\ invocations' = 0
    /\ last_step' = NoStep
    /\ rpc' = "loop"
    /\ rresult' = "none"

CallsNext == execute_request_iteration \/ execute_request_entry

SpecCalls == CallsInit /\ [][CallsNext]_vars

\* C32: retry state is scoped to one call of execute_request.  Whatever
\* calls went before, a call starts with attempt = 0 and no time elapsed,
\* its attempt counter counts the iterations of this call only, and a call
\* that gives up for lack of retries has made max_retries + 1 iterations
\* of its own.
C32_RetryStateScoped ==
    /\ (rpc = "loop" /\ call_iterations = 0) => attempt = 0 /\ elapsed = 0
    /\ rpc = "loop" => attempt = call_iterations
    /\ ( /\ rpc = "done" /\ rresult = "raised" /\ retry_type # "none"
         /\ last_step.should_retry = "no"
         /\ ~(max_wait_time # NoWaitLimit /\ elapsed >= max_wait_time) )
       => call_iterations = max_retries + 1

\* a call that follows a terminally failed call and a call that follows a
\* successful one, each with all of its retries made
C32_Witness ==
    /\ Len(request_calls) = 2
    /\ request_calls[1] = "raised" /\ request_calls[2] = "returned"
    /\ max_retries >= 2
    /\ rpc = "done" /\ rresult = "raised"
    /\ call_iterations = max_retries + 1

(***************************************************************************)
(* BitableAPI.get_all_records: the loop over the pages of search_records.  *)
(* The remote is a function from the page token it is sent (0 is None) to  *)
(* the page it answers with; one action is one iteration of "while True".  *)
(***************************************************************************)
MaxPages == 3

PageTokens == 0..(MaxPages - 1)

PageSizes == {0, 2}

\* the records of the page the remote serves for a token
PageItems(token) == [i \in 1..pages[token].size |-> <<token, i>>]

\* a faulty search_records: the token of the page is passed on whatever
\* has_more says
search_records_ignores_has_more(token) ==
    [records |-> PageItems(token),
     next_page_token |-> pages[token].page_token]

\* search_records: (records, page_token if has_more else None)
search_records(token) ==
    [records |-> PageItems(token),
     next_page_token |-> IF pages[token].has_more
                         THEN pages[token].page_token ELSE 0]

PagesInit ==
    /\ XferIdle /\ SyncIdle /\ SheetIdle /\ EngineIdle /\ RetryIdle
    /\ LimiterIdle /\ CallApiIdle /\ CancelIdle
    /\ HistoryIdle /\ SelectiveIdle /\ GlobalIdle /\ ProbesIdle
    /\ pages \in [PageTokens -> [size : PageSizes, has_more : BOOLEAN,
                                 page_token : PageTokens]]
    /\ page_token = 0
    /\ all_records = <<>>
    /\ page_requests = <<>>
    /\ ppc = "loop"

\* one iteration of "while True" of get_all_records; search_records raises
\* when the answer cannot be parsed or its code is not 0
get_all_records ==
    /\ UNCHANGED <<xvars, svars, hvars, evars, rvars, lvars, avars, kvars,
                   cvars, wvars, gvars, qvars, pages>>
    /\ ppc = "loop"
    /\ Len(page_requests) <= MaxPages
    /\ page_requests' = Append(page_requests, page_token)
    /\ \E raises \in BOOLEAN :
        IF raises
        THEN /\ ppc' = "raised"
             /\ UNCHANGED <<page_token, all_records>>
        ELSE LET got == search_records(page_token)
             IN /\ all_records' = all_records \o got.records
                /\ page_token' = got.next_page_token
                /\ ppc' = IF got.next_page_token = 0 THEN "returned"
                          ELSE "loop"

PagesNext == get_all_records

SpecPages == PagesInit /\ [][PagesNext]_vars

FairSpecPages == SpecPages /\ WF_vars(PagesNext)

\* the records of the pages requested so far, in the order of the requests
RECURSIVE FetchedRecords(_)
FetchedRecords(n) ==
    IF n = 0 THEN <<>>
    ELSE FetchedRecords(n - 1) \o PageItems(page_requests[n])

\* whether a page announces a page after it
HasNextPage(token) == pages[token].has_more /\ pages[token].page_token # 0

\* following the tokens from the first page, the remote comes to a page
\* that announces no further page
RECURSIVE EndsWithin(_, _)
EndsWithin(token, fuel) ==
    IF fuel = 0 THEN FALSE
    ELSE IF ~HasNextPage(token) THEN TRUE
    ELSE EndsWithin(pages[token].page_token, fuel - 1)

PagesFetchedInOrder ==
    LET n == Len(page_requests)
        answered == IF ppc = "raised" THEN n - 1 ELSE n
    IN /\ n >= 1 => page_requests[1] = 0
       /\ \A i \in 2..n :
            /\ HasNextPage(page_requests[i - 1])
            /\ page_requests[i] = pages[page_requests[i - 1]].page_token
       /\ ppc # "raised" => all_records = FetchedRecords(answered)
       /\ ppc = "returned" => ~HasNextPage(page_requests[n])
       /\ (ppc = "loop" /\ n >= 1) =>
            /\ HasNextPage(page_requests[n])
            /\ page_token = pages[page_requests[n]].page_token

\* C33: get_all_records asks for one page at a time, the first without a
\* token and each later one with the token the page before returned, stops
\* at the first page that announces no further page, returns the records
\* of the fetched pages in fetch order, and comes to an end whenever the
\* remote comes to a page without a next-page token.
C33_Pagination ==
    /\ []PagesFetchedInOrder
    /\ EndsWithin(0, MaxPages) => <>(ppc # "loop")

\* three pages of two records each were fetched and returned
C33_Witness ==
    /\ ppc = "returned"
    /\ Len(page_requests) = 3
    /\ Len(all_records) = 6
    /\ page_requests[2] # page_requests[3]

(***************************************************************************)
(* OVERWRITE and CLONE runs on a bitable: _sync_overwrite_bitable and      *)
(* _sync_clone_bitable with their two calls of process_in_batches.         *)
(***************************************************************************)
ReplaceNext == sync_overwrite \/ sync_clone \/ process_in_batches

SpecReplace == SyncInit /\ [][ReplaceNext]_vars

\* an OVERWRITE or CLONE run that has read the records and has its lists
Replacing ==
    /\ sync_mode \in {"OVERWRITE", "CLONE"}
    /\ Planned(sync_mode)
    /\ sync_mode = "OVERWRITE" => index_column

BatchCount(items) == (Len(items) + batch_size - 1) \div batch_size

\* C34: in OVERWRITE and CLONE on a bitable every delete batch is
\* attempted before the first create batch, the create batches are all
\* attempted whether or not a delete batch failed, and the run returns
\* true if and only if every delete batch and every create batch
\* succeeded.
C34_DeleteBeforeCreate ==
    Replacing =>
        /\ \A i, j \in 1..Len(calls) :
              (calls[i].kind = "create" /\ calls[j].kind = "delete") => j < i
        /\ KindCalls("create") # <<>> =>
              Len(KindCalls("delete")) = BatchCount(record_ids_to_delete)
        /\ spc = "done" =>
              /\ Len(KindCalls("delete")) = BatchCount(record_ids_to_delete)
              /\ Len(KindCalls("create")) = BatchCount(records_to_create)
              /\ sresult \in {"true", "false"}
              /\ sresult = "true" <=> \A i \in 1..Len(calls) : calls[i].ok

\* a delete batch failed, the create batches were sent all the same and
\* succeeded, and the run returned false
C34_Witness ==
    /\ Replacing /\ spc = "done" /\ sresult = "false"
    /\ \E i \in 1..Len(calls) : calls[i].kind = "delete" /\ ~calls[i].ok
    /\ Len(KindCalls("create")) = 2
    /\ \A i \in 1..Len(calls) : calls[i].kind = "create" => calls[i].ok

\* C36: in OVERWRITE mode the delete list holds each remote record_id at
\* most once, whatever the local rows are.
C36_DeleteListDistinct ==
    (Planned("OVERWRITE") /\ index_column) =>
        \A i, j \in 1..Len(record_ids_to_delete) :
            record_ids_to_delete[i] = record_ids_to_delete[j] => i = j

(***************************************************************************)
(* SheetAPI.write_selective_columns.  A selected column is known by its    *)
(* position in the sheet; a range is the columns start_col..end_col and,   *)
(* per column, whether the cells written are the column's data or "".      *)
(***************************************************************************)
MaxSheetCols == 6

max_gap == 2

\* sorted(column_data.keys(), key = column_positions.get)
RECURSIVE SortedPositions(_)
SortedPositions(positions) ==
    IF positions = {} THEN <<>>
    ELSE LET least == CHOOSE c \in positions : \A o \in positions : c <= o
         IN <<least>> \o SortedPositions(positions \ {least})

\* the matrix of a range: the data of a column that is selected, "" for a
\* column that only fills the gap
RangeValues(positions, start_col, end_col) ==
    [c \in start_col..end_col |-> IF c \in positions THEN "data" ELSE ""]

\* _optimize_column_ranges: consecutive sorted columns whose positions
\* differ by at most max_gap share a range
_optimize_column_ranges(positions) ==
    LET sorted == SortedPositions(positions)
        F[i \in 0..Len(sorted)] ==
            IF i = 0 THEN <<>>
            ELSE IF i > 1 /\ sorted[i] - sorted[i - 1] <= max_gap
            THEN [F[i - 1] EXCEPT ![Len(F[i - 1])].end_col = sorted[i]]
            ELSE Append(F[i - 1], [start_col |-> sorted[i],
                                   end_col |-> sorted[i]])
    IN [k \in 1..Len(F[Len(sorted)]) |->
           LET r == F[Len(sorted)][k]
           IN [start_col |-> r.start_col, end_col |-> r.end_col,
               values |-> RangeValues(positions, r.start_col, r.end_col)]]

SelectiveInit ==
    /\ XferIdle /\ SyncIdle /\ SheetIdle /\ EngineIdle /\ RetryIdle
    /\ LimiterIdle /\ CallApiIdle /\ CancelIdle
    /\ HistoryIdle /\ PagesIdle /\ GlobalIdle /\ ProbesIdle
    /\ selected_positions \in SUBSET (1..MaxSheetCols)
    /\ value_ranges = <<>>
    /\ wpc = "start"

\* write_selective_columns: nothing to write returns True; otherwise one
\* call of _batch_update_ranges with all ranges, whose success is returned
write_selective_columns ==
    /\ UNCHANGED <<xvars, svars, hvars, evars, rvars, lvars, avars, kvars,
                   cvars, pvars, gvars, qvars,
                   selected_positions>>
    /\ wpc = "start"
    /\ IF selected_positions = {}
       THEN /\ wpc' = "true"
            /\ UNCHANGED value_ranges
       ELSE /\ value_ranges' = _optimize_column_ranges(selected_positions)
            /\ \E success \in BOOLEAN :
                  wpc' = IF success THEN "true" ELSE "false"

SelectiveNext == write_selective_columns

SpecSelective == SelectiveInit /\ [][SelectiveNext]_vars

\* C35: every cell of a range written by write_selective_columns belongs
\* to a selected column; no cell of a column that is not selected is
\* written, the columns between two selected columns included.
C35_OnlySelectedColumnsWritten ==
    \A k \in 1..Len(value_ranges) :
        \A c \in value_ranges[k].start_col..value_ranges[k].end_col :
            c \in selected_positions

(***************************************************************************)
(* SlidingWindowRateLimit under sequential calls of can_proceed,           *)
(* wait_if_needed and reset.                                               *)
(***************************************************************************)
MaxSequence == 4

\* the calls made on the limiter so far
SequenceLength == Len(admissions) + limiter_probes

SlidingInit == LimiterInit /\ limiter_type = "sliding_window"

\* SlidingWindowRateLimit.can_proceed
SlidingWindowRateLimit_can_proceed ==
    /\ limiter_type = "sliding_window"
    /\ SequenceLength < MaxSequence
    /\ limiter_probes' = limiter_probes + 1
    /\ \E gap \in Gaps :
        LET kept == _cleanup_old_requests(request_timestamps, now + gap)
        IN /\ now' = now + gap
           /\ request_timestamps' = kept
           /\ can_proceed_returned' = IF HasRoom(kept) THEN "True" ELSE "False"
    /\ UNCHANGED <<limiter_type, limiter_delay, window_size, max_requests,
                   last_request_time, window_start_time,
                   current_window_requests, admissions, thread_pc,
                   thread_local>>
    /\ UNCHANGED <<xvars, svars, hvars, evars, rvars, avars, kvars, cvars,
                   pvars, wvars, gvars>>

\* SlidingWindowRateLimit.reset
SlidingWindowRateLimit_reset ==
    /\ limiter_type = "sliding_window"
    /\ SequenceLength < MaxSequence
    /\ limiter_probes' = limiter_probes + 1
    /\ request_timestamps' = <<>>
    /\ UNCHANGED <<limiter_type, limiter_delay, window_size, max_requests, now,
                   last_request_time, window_start_time,
                   current_window_requests, admissions, thread_pc,
                   thread_local, can_proceed_returned>>
    /\ UNCHANGED <<xvars, svars, hvars, evars, rvars, avars, kvars, cvars,
                   pvars, wvars, gvars>>

\* wait_if_needed as one call of the sequence
SlidingWindowRateLimit_wait_if_needed_next ==
    /\ SequenceLength < MaxSequence
    /\ SlidingWindowRateLimit_wait_if_needed

SlidingNext ==
    \/ SlidingWindowRateLimit_wait_if_needed_next
    \/ SlidingWindowRateLimit_can_proceed
    \/ SlidingWindowRateLimit_reset

SpecSliding == SlidingInit /\ [][SlidingNext]_vars

\* s is what is left of t after entries were taken from its front
IsTailOf(s, t) == \E k \in 0..Len(t) : s = SubSeq(t, k + 1, Len(t))

TimestampsBounded ==
    /\ Len(request_timestamps) <= max_requests
    /\ \A i \in 1..(Len(request_timestamps) - 1) :
          request_timestamps[i] <= request_timestamps[i + 1]

\* a step either only takes entries from the front of the deque, or it is
\* a call of wait_if_needed that returns True and appends its one entry
AppendOnlyOnAdmission ==
    \/ IsTailOf(request_timestamps', request_timestamps)
    \/ /\ Len(admissions') = Len(admissions) + 1
       /\ admissions'[Len(admissions')].returned = "True"
       /\ request_timestamps' # <<>>
       /\ IsTailOf(SubSeq(request_timestamps', 1,
                          Len(request_timestamps') - 1),
                   request_timestamps)
       /\ request_timestamps'[Len(request_timestamps')] =
             admissions'[Len(admissions')].at

\* C37: after any sequence of sequential can_proceed, wait_if_needed and
\* reset calls request_timestamps holds at most max_requests entries in
\* non-decreasing time order, and an entry is appended only by a call of
\* wait_if_needed that returns true.
C37_SlidingWindowState ==
    /\ []TimestampsBounded
    /\ [][AppendOnlyOnAdmission]_vars

\* the deque is full after two admissions, and can_proceed said so
C37_Witness ==
    /\ limiter_type = "sliding_window"
    /\ limiter_probes = 1 /\ can_proceed_returned = "False"
    /\ Len(request_timestamps) = max_requests /\ max_requests = 2
    /\ Len(admissions) = 2

(***************************************************************************)
(* GlobalRequestController used by two threads.  Each thread constructs    *)
(* the controller and then constructs again, configures or reads through   *)
(* the reference it got last.  A step is one access to a shared attribute  *)
(* or to the lock; an object is known by the order of its creation.        *)
(***************************************************************************)
MaxGlobalOps == 2

Controllers == {1, 2}

ObjectIds == 1..Cardinality(Threads) * (MaxGlobalOps + 1)

NoGet == [op |-> "none", value |-> 0, stable |-> FALSE, expected |-> 0]

\* a faulty constructor: no second test once the lock is held
MakesObjectUnchecked(instance) == TRUE

\* "if cls._instance is None" inside "with _lock"
MakesObject(instance) == instance = 0

GlobalInit ==
    /\ XferIdle /\ SyncIdle /\ SheetIdle /\ EngineIdle /\ RetryIdle
    /\ LimiterIdle /\ CallApiIdle /\ CancelIdle
    /\ HistoryIdle /\ PagesIdle /\ SelectiveIdle /\ ProbesIdle
    /\ _instance = 0
    /\ _controller = [o \in ObjectIds |-> 0]
    /\ _lock = 0
    /\ objects_made = 0
    /\ configured = 0
    /\ global_pc = [t \in Threads |-> [at |-> "new", left |-> MaxGlobalOps,
                                       arg |-> 0]]
    /\ global_ref = [t \in Threads |-> <<>>]
    /\ global_got = [t \in Threads |-> NoGet]

\* the thread goes on to another statement
Goto(t, at) == global_pc' = [global_pc EXCEPT ![t].at = at]

\* self of the thread's calls: the reference its last construction returned
Self(t) == global_ref[t][Len(global_ref[t])]

\* some thread is between the call of configure and its return
Configuring ==
    \E t \in Threads :
        global_pc[t].at \in {"configure", "configure_locked", "configure_exit"}

GlobalFrame ==
    UNCHANGED <<xvars, svars, hvars, evars, rvars, lvars, avars, kvars,
                cvars, pvars, wvars, qvars>>

\* __new__: "if cls._instance is None" outside the lock
new_first_check(t) ==
    /\ GlobalFrame
    /\ global_pc[t].at = "new"
    /\ Goto(t, IF _instance = 0 THEN "new_lock" ELSE "new_return")
    /\ UNCHANGED <<_instance, _controller, _lock, objects_made, configured,
                   global_ref, global_got>>

\* __new__: "with GlobalRequestController._lock"
new_acquire(t) ==
    /\ GlobalFrame
    /\ global_pc[t].at = "new_lock"
    /\ _lock = 0
    /\ _lock' = t
    /\ Goto(t, "new_locked")
    /\ UNCHANGED <<_instance, _controller, objects_made, configured,
                   global_ref, global_got>>

\* __new__: the test and the assignment inside the lock, and its release
new_second_check(t) ==
    /\ GlobalFrame
    /\ global_pc[t].at = "new_locked"
    /\ IF MakesObject(_instance)
       THEN /\ objects_made' = objects_made + 1
            /\ _instance' = objects_made + 1
       ELSE UNCHANGED <<objects_made, _instance>>
    /\ _lock' = 0
    /\ Goto(t, "new_return")
    /\ UNCHANGED <<_controller, configured, global_ref, global_got>>

\* __new__: "return cls._instance"
new_return(t) ==
    /\ GlobalFrame
    /\ global_pc[t].at = "new_return"
    /\ global_ref' = [global_ref EXCEPT ![t] = Append(@, _instance)]
    /\ Goto(t, "ready")
    /\ UNCHANGED <<_instance, _controller, _lock, objects_made, configured,
                   global_got>>

\* the thread constructs the controller once more
construct_again(t) ==
    /\ GlobalFrame
    /\ global_pc[t].at = "ready" /\ global_pc[t].left > 0
    /\ global_pc' = [global_pc EXCEPT ![t].at = "new", ![t].left = @ - 1]
    /\ UNCHANGED <<_instance, _controller, _lock, objects_made, configured,
                   global_ref, global_got>>

\* the thread calls configure(c)
configure_call(t) ==
    /\ GlobalFrame
    /\ global_pc[t].at = "ready" /\ global_pc[t].left > 0
    /\ \E c \in Controllers :
          global_pc' = [global_pc EXCEPT ![t].at = "configure",
                                         ![t].left = @ - 1, ![t].arg = c]
    /\ UNCHANGED <<_instance, _controller, _lock, objects_made, configured,
                   global_ref, global_got>>

\* configure: "with GlobalRequestController._lock"
configure_acquire(t) ==
    /\ GlobalFrame
    /\ global_pc[t].at = "configure"
    /\ _lock = 0
    /\ _lock' = t
    /\ Goto(t, "configure_locked")
    /\ UNCHANGED <<_instance, _controller, objects_made, configured,
                   global_ref, global_got>>

\* configure: "self._controller = controller"
configure_assign(t) ==
    /\ GlobalFrame
    /\ global_pc[t].at = "configure_locked"
    /\ _controller' = [_controller EXCEPT ![Self(t)] = global_pc[t].arg]
    /\ Goto(t, "configure_exit")
    /\ UNCHANGED <<_instance, _lock, objects_made, configured, global_ref,
                   global_got>>

\* configure: the lock is released and the call returns
configure_return(t) ==
    /\ GlobalFrame
    /\ global_pc[t].at = "configure_exit"
    /\ _lock' = 0
    /\ configured' = global_pc[t].arg
    /\ Goto(t, "ready")
    /\ UNCHANGED <<_instance, _controller, objects_made, global_ref,
                   global_got>>

\* the thread calls get_controller
get_controller_call(t) ==
    /\ GlobalFrame
    /\ global_pc[t].at = "ready" /\ global_pc[t].left > 0
    /\ global_pc' = [global_pc EXCEPT ![t].at = "get", ![t].left = @ - 1]
    /\ UNCHANGED <<_instance, _controller, _lock, objects_made, configured,
                   global_ref, global_got>>

\* get_controller: "with GlobalRequestController._lock"
get_controller_acquire(t) ==
    /\ GlobalFrame
    /\ global_pc[t].at = "get"
    /\ _lock = 0
    /\ _lock' = t
    /\ Goto(t, "get_locked")
    /\ UNCHANGED <<_instance, _controller, objects_made, configured,
                   global_ref, global_got>>

\* get_controller: "return self._controller", the lock released
get_controller_return(t) ==
    /\ GlobalFrame
    /\ global_pc[t].at = "get_locked"
    /\ global_got' = [global_got EXCEPT ![t] =
           [op |-> "get_controller", value |-> _controller[Self(t)],
            stable |-> ~Configuring, expected |-> configured]]
    /\ _lock' = 0
    /\ Goto(t, "ready")
    /\ UNCHANGED <<_instance, _controller, objects_made, configured,
                   global_ref>>

\* get_api_client: "EnhancedAPIClient(self._controller)", without the lock
get_api_client(t) ==
    /\ GlobalFrame
    /\ global_pc[t].at = "ready" /\ global_pc[t].left > 0
    /\ global_pc' = [global_pc EXCEPT ![t].left = @ - 1]
    /\ global_got' = [global_got EXCEPT ![t] =
           [op |-> "get_api_client", value |-> _controller[Self(t)],
            stable |-> ~Configuring, expected |-> configured]]
    /\ UNCHANGED <<_instance, _controller, _lock, objects_made, configured,
                   global_ref>>

GlobalNext ==
    \E t \in Threads :
        \/ new_first_check(t)
        \/ new_acquire(t)
        \/ new_second_check(t)
        \/ new_return(t)
        \/ construct_again(t)
        \/ configure_call(t)
        \/ configure_acquire(t)
        \/ configure_assign(t)
        \/ configure_return(t)
        \/ get_controller_call(t)
        \/ get_controller_acquire(t)
        \/ get_controller_return(t)
        \/ get_api_client(t)

SpecGlobal == GlobalInit /\ [][GlobalNext]_vars

\* every reference a construction has returned
ReturnedRefs ==
    UNION {{global_ref[t][i] : i \in 1..Len(global_ref[t])} : t \in Threads}

\* C38: whatever the interleaving of the threads, every construction of
\* GlobalRequestController returns the same instance, and a get_controller
\* or get_api_client that reads while no configure is under way observes
\* the controller of the last configure that completed.
C38_Singleton ==
    /\ objects_made <= 1
    /\ Cardinality(ReturnedRefs) <= 1
    /\ 0 \notin ReturnedRefs
    /\ \A t \in Threads :
          (global_got[t].op # "none" /\ global_got[t].stable) =>
              global_got[t].value = global_got[t].expected
    /\ (~Configuring /\ _instance # 0) => _controller[_instance] = configured

\* both threads raced through the constructor, one configured controller 2
\* after the other had configured 1, and both reads of the other thread,
\* with and without the lock, saw what was configured last
C38_Witness ==
    /\ Len(global_ref[1]) = 1 /\ Len(global_ref[2]) = 1
    /\ global_ref[1] = global_ref[2]
    /\ configured = 2
    /\ global_got[2].op = "get_api_client" /\ global_got[2].stable
    /\ global_got[2].value = 2
    /\ global_pc[1].left = 0 /\ global_pc[2].left = 0

(***************************************************************************)
(* XTFSyncEngine.sync with ensure_fields_exist field by field.  A column   *)
(* of the DataFrame is known by its position; the missing fields are       *)
(* created in column order up to the first create_field that fails.        *)
(***************************************************************************)
MaxFields == 2

FieldCall(call, field, succeeded) ==
    [op |-> call, field |-> field, ok |-> succeeded]

\* "missing_fields = [col for col in df.columns if col in missing_fields_set]"
MissingFields(existing) ==
    SelectSeq([c \in 1..MaxFields |-> c], LAMBDA c : c \notin existing)

\* the field calls of ensure_fields_exist: list_fields, which raises or
\* returns, then create_field for each missing field up to the one that
\* fails (failing = 0: none fails)
ensure_fields_exist(listed, missing, failing) ==
    IF ~listed THEN <<FieldCall("list_fields", 0, FALSE)>>
    ELSE <<FieldCall("list_fields", 0, TRUE)>> \o
         [i \in 1..(IF failing = 0 THEN Len(missing) ELSE failing) |->
             FieldCall("create_field", missing[i], i # failing)]

\* the fields the calls have created
CreatedFields(issued) ==
    {issued[i].field : i \in {j \in 1..Len(issued) :
                                issued[j].op = "create_field" /\ issued[j].ok}}

\* a faulty sync: the result of ensure_fields_exist is not looked at
FieldsEnsuredAnyway(issued) == TRUE

\* success of ensure_fields_exist: no call raised or returned False
FieldsEnsured(issued) == \A i \in 1..Len(issued) : issued[i].ok

\* the run before sync: at most one local row and one remote record, any
\* mode, any fields in the table
FieldsInit ==
    /\ XferIdle
    /\ SheetIdle
    /\ RestIdle
    /\ RetryIdle
    /\ \E ks \in SeqsUpTo(LocalKeys, 1) :
          df = [i \in 1..Len(ks) |-> [key |-> ks[i], n |-> i]]
    /\ \E ks \in SeqsUpTo(RemoteKeys, 1) :
          remote = [i \in 1..Len(ks) |-> [record_id |-> i, key |-> ks[i], n |-> 0]]
    /\ next_id = Len(remote) + 1
    /\ index_column = TRUE
    /\ key_field_type = "text"
    /\ batch_size = MaxBatch
    /\ sync_mode \in SyncModes
    /\ records_to_update = <<>> /\ records_to_create = <<>>
    /\ record_ids_to_delete = <<>>
    /\ phase_ok = [delete |-> TRUE, update |-> TRUE, create |-> TRUE]
    /\ batch_i = 0 /\ success_count = 0 /\ calls = <<>> /\ runs = 0
    /\ history = <<>> /\ existing_records = <<>>
    /\ spc = "start" /\ sresult = "none"
    /\ field_calls = <<>>
    /\ table_fields \in SUBSET (1..MaxFields)
    /\ create_missing_fields \in BOOLEAN

\* sync up to the call of the mode's method, with the calls of
\* ensure_fields_exist: "if not success: return False"
sync_ensure_fields ==
    /\ UNCHANGED <<xvars, hvars, rvars, rest_vars>>
    /\ spc = "start"
    /\ LET missing == IF create_missing_fields
                      THEN MissingFields(table_fields) ELSE <<>>
       IN \E listed \in BOOLEAN, failing \in 0..Len(missing) :
            LET issued == ensure_fields_exist(listed, missing, failing)
                success == FieldsEnsured(issued)
            IN /\ field_calls' = issued
               /\ table_fields' = table_fields \cup CreatedFields(issued)
               /\ spc' = IF success THEN "idle" ELSE "done"
               /\ sresult' = IF success THEN "none" ELSE "false"
    /\ UNCHANGED <<df, index_column, key_field_type, batch_size, remote,
                   next_id, sync_mode, records_to_update, records_to_create,
                   record_ids_to_delete, phase_ok, batch_i, success_count,
                   calls, runs, history, existing_records,
                   create_missing_fields>>

FieldsNext ==
    \/ sync_ensure_fields
    \/ sync_full
    \/ sync_incremental
    \/ sync_overwrite
    \/ sync_clone
    \/ process_in_batches

SpecFields == FieldsInit /\ [][FieldsNext]_vars

\* list_fields raised, or a create_field raised or returned False
EnsureFailed ==
    field_calls # <<>> /\ ~field_calls[Len(field_calls)].ok

\* the step of ensure_fields_exist leaves the table with the fields it had
\* and those whose creation succeeded
CreatedFieldsStay ==
    field_calls' # field_calls =>
        /\ table_fields' = table_fields \cup CreatedFields(field_calls')
        /\ \A i \in 1..Len(field_calls') :
              field_calls'[i].op \in {"list_fields", "create_field"}

\* C39: when ensuring the fields fails, because listing fails or because
\* the creation of one field fails, sync returns false and issues no
\* record create, update or delete call, and the fields created before the
\* failing one stay in the table.
C39_EnsureFieldsFailure ==
    /\ [](EnsureFailed =>
            /\ spc = "done" /\ sresult = "false"
            /\ calls = <<>> /\ runs = 0
            /\ CreatedFields(field_calls) \subseteq table_fields)
    /\ [][CreatedFieldsStay]_vars

\* the first missing field was created, the second failed, and sync
\* returned false with the first field in the table
C39_Witness ==
    /\ EnsureFailed
    /\ Len(field_calls) = 3
    /\ field_calls[2].ok
    /\ table_fields = {field_calls[2].field}
    /\ sresult = "false"

=============================================================================
